---- MODULE Spec2Model ----
(***************************************************************************)
(* The Postgres-backed task queue of the worker (src/worker/tasks.py) and  *)
(* the API handlers that feed it.  Rows of pipeline_tasks are the shared   *)
(* state; every worker process is a sequential program whose position is   *)
(* pc[w].  One action is one database round trip of the code (a SELECT, a  *)
(* commit) together with the local computation that leads up to it, or the *)
(* return of one long-running flow call.                                   *)
(***************************************************************************)
EXTENDS Integers, FiniteSets, Sequences, TLC

\* ---------------------------------------------------------------- bounds
NumWorkers == 2
MaxTasks == 2
MaxVideos == 2
MaxCrashes == 1
MaxTotal == 100
MaxPolls == 2
MaxTokens == 2
MaxEmits == 2
MaxTopK == 2
MaxSegments == 3
MaxStart == 2
MaxRuns == 2
MaxChunks == 3
MaxBatch == 2

Workers == 1..NumWorkers
TaskIds == 1..MaxTasks
VideoIds == 1..MaxVideos
NoWorker == 0
NoTask == 0

\* ------------------------------------------------------- program constants
NULL == "null"
PENDING == "pending"
RUNNING == "running"
COMPLETED == "completed"
FAILED == "failed"
\* a row that was never inserted / a row removed by delete_task
ABSENT == "absent"
DELETED == "deleted"

TaskStatus == {PENDING, RUNNING, COMPLETED, FAILED}
Terminal == {COMPLETED, FAILED}

\* task_type is a String(50) column: the API inserts the first two, the
\* worker's dispatch has an else-branch for anything else
TaskTypes == {"pipeline", "embed_question", "other"}

STUCK_MESSAGE == "Worker crashed or restarted during execution"
ALL_FAILED_MESSAGE == "All videos failed to process."
PARTIAL_MESSAGE == "Completed with errors. "
TYPE_ERROR == "missing 1 required positional argument: 'embedding_model'"
INGEST_ERROR == "ingest_channel_flow raised"
CANCEL_MESSAGE == "cancelled"

VARIABLES
    tasks,          \* pipeline_tasks: id -> row
    lock,           \* row-level lock (FOR UPDATE) held on a row: id -> worker
    pc,             \* position of each worker process
    task,           \* the worker's local `task` (the row it fetched)
    video,          \* per worker: [total_videos, index, success_count]
    kill_now,       \* GracefulKiller.kill_now
    stuck_tasks,    \* reset_stuck_tasks: the rows its SELECT returned
    notifies,       \* a notification is readable on the worker's LISTEN socket
    crashes,        \* number of process deaths so far
    registered,     \* videos: the video_ids that have a row
    stream,         \* one POST /chat/ask_stream response: the generator's frame
    sse,            \* one GET /pipeline/events subscriber: the generator's frame
    retrieval,      \* one retrieval of the CONTENT path: get_chat_video_ids, search_hybrid
    sql_agent,      \* one SQLAgentService.handle call of the METADATA path
    http,           \* the last response of POST /pipeline/tasks, with its request
    library,        \* videos rows (downloaded, transcribed, audio_path) and the flows' local lists
    chunker,        \* one video's segments and the chunks table, with the chunk runs so far
    embedder        \* one embed_flow call: the chunks' vectors, the loop's counters

vars == <<tasks, lock, pc, task, video, kill_now, stuck_tasks, notifies, crashes, registered, stream, sse, retrieval, sql_agent, http, library, chunker, embedder>>

NoRow == [task_type |-> NULL, status |-> ABSENT, progress |-> 0, error_message |-> NULL,
          result |-> NULL, started_at |-> FALSE, completed_at |-> FALSE]

NoVideo == [total_videos |-> 0, index |-> 0, success_count |-> 0, video_ids |-> {},
            base_progress |-> 0]

Exists(t) == tasks[t].status \in TaskStatus

\* ------------------------------------------------------------ pure helpers

\* PipelineTask(task_type=..., status=PENDING, request=...): column defaults
NewTask(tt) == [task_type |-> tt, status |-> PENDING, progress |-> 0, error_message |-> NULL,
                result |-> NULL, started_at |-> FALSE, completed_at |-> FALSE]

\* update_task_state: progress always, result only when truthy
update_task_state(r, progress, current_result) ==
    [r EXCEPT !.progress = progress,
              !.result = IF current_result # NULL THEN current_result ELSE @]

\* a fetch that forgets FOR UPDATE SKIP LOCKED
FetchableUnlocked(t) == tasks[t].status = PENDING

\* the rows the claim query may return: pending, and not locked by another
\* transaction (with_for_update(skip_locked=True))
Fetchable(t) == tasks[t].status = PENDING /\ lock[t] = NoWorker

\* SELECT ... WHERE status = PENDING ORDER BY created_at ASC
\* FOR UPDATE SKIP LOCKED LIMIT 1 (ids stand for created_at order)
fetch_next_task ==
    IF \E t \in TaskIds : Fetchable(t)
    THEN CHOOSE t \in TaskIds : Fetchable(t) /\ \A u \in TaskIds : Fetchable(u) => t <= u
    ELSE NoTask

\* pct_per_video = 90.0 / total_videos is a double: the quotient is exact when
\* 90 / total_videos is a dyadic rational (total_videos = 2^a * d with d | 45)
pct_per_video_exact(total_videos) ==
    \E k \in {1, 2, 4, 8, 16, 32, 64} :
        total_videos % k = 0 /\ 45 % (total_videos \div k) = 0

\* current_base = int(start_pct + (index * pct_per_video)).  int() truncates;
\* where the exact value 10 + 90 * index / total_videos is an integer k and
\* pct_per_video is rounded, the double may lie just below k and give k - 1
\* (total_videos = 78, index = 39 gives 54): both outcomes are allowed
current_base(index, total_videos) ==
    LET k == (10 * total_videos + 90 * index) \div total_videos IN
    IF index = 0 \/ pct_per_video_exact(total_videos) \/ (90 * index) % total_videos # 0
    THEN {k} ELSE {k - 1, k}

\* a sub-stage offset that leaves base_progress out
p_chunk_without_base(base_progress, total_videos) == 36 \div total_videos

\* p_chunk = int(base_progress + (segment_size * 0.4)), and 0.7 for p_embed;
\* the truncated doubles equal these quotients for every total_videos <= 129
p_chunk(base_progress, total_videos) == (base_progress * total_videos + 36) \div total_videos
p_embed(base_progress, total_videos) == (base_progress * total_videos + 63) \div total_videos

\* reset_stuck_tasks that puts the row back in the queue ("or PENDING to retry")
ResetRowRetry(r) == [r EXCEPT !.status = PENDING]

\* reset_stuck_tasks, the loop body over the rows found running
ResetRow(r) == [r EXCEPT !.status = FAILED, !.error_message = STUCK_MESSAGE,
                         !.completed_at = TRUE]

\* run_task, first commit: the claim
ClaimPipeline(r) == [r EXCEPT !.status = RUNNING, !.started_at = TRUE, !.progress = 0,
                              !.result = "Initializing..."]

\* run_embedding, first commit: the claim
ClaimEmbedding(r) ==
    update_task_state([r EXCEPT !.status = RUNNING, !.started_at = TRUE],
                      10, "Calculating embedding...")

\* run_task, "if not video_ids" branch
NoVideos(r) ==
    update_task_state([r EXCEPT !.status = COMPLETED, !.progress = 100, !.completed_at = TRUE],
                      100, "Completed. No new videos found.")

\* f"Completed with errors. {success_count}/{total_videos} processed."
PartialMessage(success_count, total_videos) ==
    PARTIAL_MESSAGE \o ToString(success_count) \o "/" \o ToString(total_videos) \o " processed."

\* a finalization that fails the task as soon as one video failed
FinalizeAllOrNothing(r, success_count, total_videos) ==
    LET done == [r EXCEPT !.completed_at = TRUE] IN
    IF success_count < total_videos
    THEN update_task_state([done EXCEPT !.status = FAILED, !.error_message = ALL_FAILED_MESSAGE],
                           100, "Failed. See logs.")
    ELSE update_task_state([done EXCEPT !.status = COMPLETED], 100, "Finished.")

\* run_task, finalization after the per-video loop
Finalize(r, success_count, total_videos) ==
    LET done == [r EXCEPT !.completed_at = TRUE] IN
    IF success_count = 0 /\ total_videos > 0
    THEN update_task_state([done EXCEPT !.status = FAILED, !.error_message = ALL_FAILED_MESSAGE],
                           100, "Failed. See logs.")
    ELSE IF success_count < total_videos
    THEN update_task_state([done EXCEPT !.status = COMPLETED,
                                        !.error_message = PartialMessage(success_count, total_videos)],
                           100, "Finished.")
    ELSE update_task_state([done EXCEPT !.status = COMPLETED], 100, "Finished.")

\* an except block that forgets error_message (as the unsupported branch does)
CriticalFailureSilent(r, e) ==
    update_task_state([r EXCEPT !.status = FAILED, !.completed_at = TRUE],
                      r.progress, "Critical System Error")

\* run_task, except block
CriticalFailure(r, e) ==
    update_task_state([r EXCEPT !.status = FAILED, !.error_message = e, !.completed_at = TRUE],
                      r.progress, "Critical System Error")

\* run_embedding, try block after embed_question returned
EmbeddingDone(r) ==
    update_task_state([r EXCEPT !.result = "vector", !.status = COMPLETED], 100, NULL)

\* run_embedding, except block
EmbeddingFailure(r, e) ==
    [r EXCEPT !.status = FAILED, !.error_message = e, !.completed_at = TRUE]

\* worker loop, else-branch of the dispatch
UnsupportedRow(r) == [r EXCEPT !.status = FAILED]

\* a per-video loop that never looks at the re-read status
TaskCancelledIgnored(r) == FALSE

\* run_task, per-video loop: "if task.status == TaskStatus.FAILED: break"
TaskCancelled(r) == r.status = FAILED

\* a loop that never looks at the kill latch
loop_forever(k) == TRUE

\* worker loop: "while not killer.kill_now"
loop_continues(k) == ~k

\* select.select with no timeout: returns only when the socket has data
select_blocking(n) == IF n THEN {"data"} ELSE {}

\* select.select([fd], [], [], timeout): data, timeout, or an exception
select_result(n) == IF n THEN {"data", "error"} ELSE {"timeout", "error"}

\* a stage call that leaves video_ids out: the flow takes every candidate
all_video_ids(index) == {}

\* process_single_video: every stage is called with video_ids=[video_id]
stage_video_ids(index) == {index}

\* transcribe_flow / chunk_flow / count_pending_embeddings: "if video_ids:"
\* keeps the candidates named in video_ids; an empty or missing list keeps all
flow_targets(candidates, video_ids) ==
    IF video_ids # {} THEN candidates \cap video_ids ELSE candidates

\* fetch_channel_videos: the channel's list, newest max_videos entries of the
\* videos published so far
fetch_channel_videos == {1..k : k \in 0..MaxVideos}

\* register_videos: "Skip if already exists"; returns the new video IDs
register_videos(videos_data) == videos_data \ registered

\* an embed_flow call with every required argument: it returns or it raises
embed_flow_called_with_model == {"ok", "raise"}

\* what the flow calls of tasks.py can do.  embed_flow and embed_question are
\* called without their required embedding_model argument: a TypeError, always
ingest_channel_flow_result ==
    {[raised |-> b, video_ids |-> register_videos(videos_data)] :
        b \in BOOLEAN, videos_data \in fetch_channel_videos}
transcribe_flow_result == {"ok", "failed"}
chunk_flow_result == {"ok", "raise"}
embed_flow_result == {"raise"}
embed_question_result == {"raise"}

\* ------------------------------------------------- the ask_stream generator

\* _classify_intent: one of the three labels, "CONTENT" for any other reply
Intents == {"METADATA", "CONTENT", "CONTENT_GLOBAL"}

\* the tokens llm_service.generate_stream yields
Tokens == {"a", "b"}

\* a source entry built from a chunk row
SOURCE == "source"

\* the texts ask_stream handles as a whole
QUESTION == "question"
METADATA_ANSWER == "metadata answer"
NOT_FOUND_ANSWER == "I couldn't find any relevant information in the selected videos."

\* Python's None in a nullable Text column, and json.dumps of a list
None == [null |-> TRUE, json |-> <<>>]
json_dumps(sources) == [null |-> FALSE, json |-> sources]

\* add_message that forgets the sources
sources_column_dropped(sources) == None

\* add_message: "sources": json.dumps(sources) if sources else None
sources_column(sources) == IF sources # <<>> THEN json_dumps(sources) ELSE None

\* ChatMessageRepository.add_message: create() adds the row and commits
add_message(messages, role, content, sources) ==
    Append(messages, [role |-> role, content |-> content, sources |-> sources_column(sources)])

\* the frame of a generator that has not been created
NoStream == [pc |-> "none", task |-> NoTask, intent |-> "none", events |-> <<>>,
             answer_text |-> <<>>, sources |-> <<>>, polls |-> 0, error |-> "none",
             messages |-> <<>>]

\* yield json.dumps({"type": type, "data": data}) + "\n"
yield(s, type, data) == [s EXCEPT !.events = Append(@, [type |-> type, data |-> data])]

\* One iteration of _wait_for_embedding on the row its SELECT returned, with
\* time.time() - start_time > timeout evaluated to timed_out; a wait that
\* does not look at the failed status
wait_outcome_without_failed(row, timed_out) ==
    IF row.status \notin TaskStatus THEN "NoResultFound"
    ELSE IF row.status = COMPLETED /\ row.result # NULL THEN "return"
    ELSE IF timed_out THEN "TimeoutError"
    ELSE "sleep"

\* one iteration of _wait_for_embedding: .one() raises when the row is gone
wait_outcome(row, timed_out) ==
    IF row.status \notin TaskStatus THEN "NoResultFound"
    ELSE IF row.status = COMPLETED /\ row.result # NULL THEN "return"
    ELSE IF row.status = FAILED THEN "RuntimeError"
    ELSE IF timed_out THEN "TimeoutError"
    ELSE "sleep"

\* handle_content_global: what the chunks query and the summary filter give:
\* no row, rows whose summaries are all blank, rows with a summary
global_rows == {"none", "blank", "summarized"}

\* retriever_service.search_hybrid: the chunks found
search_hybrid == {<<>>, <<SOURCE>>, <<SOURCE, SOURCE>>}


\* --------------------------------------------- the /events subscriber (SSE)

\* .limit(20) of the poll query
POLL_LIMIT == 20

\* what the subscriber has for a task id it has no entry for
UNSEEN == "unseen"

\* the frame of an event_generator that has not been created;
\* emitted counts the task_update events sent, per (task_id, status)
NoSse == [pc |-> "none",
          seen_task_states |-> [t \in TaskIds |-> UNSEEN],
          emitted |-> [t \in TaskIds |-> [s \in Terminal |-> 0]]]

\* query(PipelineTask).filter(status in (COMPLETED, FAILED)): the ids found
terminal_tasks == {t \in TaskIds : tasks[t].status \in Terminal}

\* ORDER BY completed_at DESC LIMIT n: every row when there are at most n,
\* else n of them (the newest; a NULL completed_at sorts first)
limit(rows, n) ==
    IF Cardinality(rows) <= n THEN {rows}
    ELSE {T \in SUBSET rows : Cardinality(T) = n}

\* the test of the poll loop: "task_id not in seen_task_states or
\* seen_task_states[task_id] != current_status"
is_new(seen, t) == seen[t] # tasks[t].status

\* "if task.completed_at: ... if time_diff < 60": the row was stamped, and a
\* row whose status changed since the previous cycle, 5 s ago, is recent
notified(t) == tasks[t].completed_at

\* ------------------------------------------------------------ the retriever

\* the library: channels, the videos that exist, the rows of chunks
Channels == {1, 2}
LibraryVideos == {1, 2, 3}
ChunkIds == {1, 2, 3, 4}

\* chunks.video_id of each chunk row
chunk_video_id == <<1, 1, 2, 3>>

\* embedding <-> query, and ts_rank, of each chunk row (times 10)
vector_distance == <<3, 6, 1, 4>>
text_rank == <<2, 5, 4, 1>>

\* rag_vector_weight and rag_text_weight (times 10)
vector_weight == 7
text_weight == 3

\* the call that has not been made
NoRetrieval == [pc |-> "none", channel_of |-> <<>>, has_vector |-> {}, text_match |-> {},
                channel_id |-> 0, requested |-> {}, top_k |-> 0, video_ids |-> {},
                queried |-> FALSE, chunks |-> <<>>]

\* VideoRepository.get_chat_video_ids: the videos of the channel, those of
\* the request if it names any (else the first 200)
get_chat_video_ids(channel_of, channel_id, video_ids) ==
    LET of_channel == {v \in LibraryVideos : channel_of[v] = channel_id} IN
    IF video_ids # {} THEN of_channel \cap video_ids ELSE of_channel

\* ORDER BY key [DESC] LIMIT n over rows with distinct keys
first_n(rows, key, n) ==
    {c \in rows : Cardinality({d \in rows : key[d] < key[c]}) < n}
last_n(rows, key, n) ==
    {c \in rows : Cardinality({d \in rows : key[d] > key[c]}) < n}

\* the CTE vector_results
vector_results(r) ==
    first_n({c \in r.has_vector : chunk_video_id[c] \in r.video_ids}, vector_distance, r.top_k)

\* a CTE text_results without "AND video_id = ANY(:video_ids)"
text_results_any_video(r) == last_n(r.text_match, text_rank, r.top_k)

\* the CTE text_results
text_results(r) ==
    last_n({c \in r.text_match : chunk_video_id[c] \in r.video_ids}, text_rank, r.top_k)

\* final_score = vector_weight * vector_score + text_weight * text_score,
\* a missing side counting 0 (times 100)
final_score(r, c) ==
    (IF c \in vector_results(r) THEN vector_weight * (10 - vector_distance[c]) ELSE 0)
    + (IF c \in text_results(r) THEN text_weight * text_rank[c] ELSE 0)

\* merged.sort(key=score, reverse=True): list.sort is stable, and the rows
\* of the join come in no particular order
RECURSIVE sorted_by_score(_, _)
sorted_by_score(r, rows) ==
    IF rows = {} THEN {<<>>}
    ELSE LET best == {c \in rows : \A d \in rows : final_score(r, d) <= final_score(r, c)} IN
         UNION {{<<c>> \o rest : rest \in sorted_by_score(r, rows \ {c})} : c \in best}

\* merged[:top_k]
first_k(list, k) == SubSeq(list, 1, IF Len(list) < k THEN Len(list) ELSE k)

\* RetrieverService.search_hybrid on a non-empty video_ids: FULL OUTER JOIN
\* of the two CTEs, scored, sorted, cut
search_hybrid_query(r) ==
    {first_k(list, r.top_k) :
        list \in sorted_by_score(r, vector_results(r) \cup text_results(r))}

\* ------------------------------------------------------------ the SQL agent

\* Text is a sequence of items: a character, or one of the two fences that
\* _generate_sql removes (three backquotes, with and without "sql")
FENCE_SQL == "fence sql"
FENCE == "fence"
Whitespace == {" ", "\n"}
Lower == {"s", "e", "l", "c", "t", "d", "a"}
Upper == {"S", "E", "L", "C", "T", "D", "A", "R", "O", "P"}
WordChars == Lower \cup Upper \cup {"1", "_"}

\* the replies of the LLM: [fence] [space] word [rest] [fence]
SqlWords == {<<"S", "E", "L", "E", "C", "T">>, <<"s", "e", "l", "e", "c", "t">>,
             <<"S", "e", "l", "e", "c", "t">>, <<"S", "E", "L", "E", "C", "T", "E", "D">>,
             <<"s", "e", "l", "e", "c", "t", "a">>, <<"S", "E", "L", "E", "C">>,
             <<"D", "R", "O", "P">>, <<>>}
SqlLeads == {<<>>, <<FENCE_SQL, "\n">>, <<FENCE, "\n">>, <<" ">>, <<"\n", " ">>}
SqlRests == {<<>>, <<" ", "1">>, <<"\n", "1">>, <<"(", "1", ")">>}
SqlTails == {<<>>, <<"\n", FENCE>>, <<" ">>}
LlmReplies == {lead \o word \o rest \o tail :
                  lead \in SqlLeads, word \in SqlWords, rest \in SqlRests, tail \in SqlTails}

\* str.upper()
upper_char(c) ==
    CASE c = "s" -> "S" [] c = "e" -> "E" [] c = "l" -> "L" [] c = "c" -> "C"
      [] c = "t" -> "T" [] c = "d" -> "D" [] c = "a" -> "A" [] OTHER -> c
upper(text) == [i \in DOMAIN text |-> upper_char(text[i])]

\* str.replace(fence, "")
RECURSIVE replace(_, _)
replace(text, fence) ==
    IF text = <<>> THEN <<>>
    ELSE (IF Head(text) = fence THEN <<>> ELSE <<Head(text)>>) \o replace(Tail(text), fence)

\* str.strip()
RECURSIVE lstrip(_)
lstrip(text) ==
    IF text # <<>> /\ Head(text) \in Whitespace THEN lstrip(Tail(text)) ELSE text
RECURSIVE rstrip(_)
rstrip(text) ==
    IF text # <<>> /\ text[Len(text)] \in Whitespace
    THEN rstrip(SubSeq(text, 1, Len(text) - 1)) ELSE text
strip(text) == rstrip(lstrip(text))

\* str.startswith(prefix)
startswith(text, prefix) ==
    Len(text) >= Len(prefix) /\ SubSeq(text, 1, Len(prefix)) = prefix

\* _generate_sql: response.replace(FENCE_SQL, "").replace(FENCE, "").strip()
clean_sql(response) == strip(replace(replace(response, FENCE_SQL), FENCE))

\* the first token of a text: its leading run of word characters
RECURSIVE first_token(_)
first_token(text) ==
    IF text # <<>> /\ Head(text) \in WordChars
    THEN <<Head(text)>> \o first_token(Tail(text)) ELSE <<>>

\* handle: sql_query.strip().upper().startswith("SELECT")
is_select(sql_query) ==
    startswith(upper(strip(sql_query)), <<"S", "E", "L", "E", "C", "T">>)

\* the call that has not been made
NoSqlAgent == [pc |-> "none", response |-> <<>>, sql_query |-> <<>>, executed |-> FALSE,
               answer |-> "none"]

\* ---------------------------------------------------- POST /pipeline/tasks

\* the bodies sent to the endpoint: task_type, whether channel_url and
\* question_to_embed are given and non-empty, max_videos
TaskRequests ==
    [task_type : {"pipeline", "embed_question", "other"}, channel_url : BOOLEAN,
     question_to_embed : BOOLEAN, max_videos : {0, 10, 101}]

\* no request yet
NoResponse == [status_code |-> 0, task_id |-> NoTask,
               request |-> [task_type |-> "none", channel_url |-> FALSE,
                            question_to_embed |-> FALSE, max_videos |-> 0]]

\* TaskRequest: task_type is a Literal of two values, max_videos is in 1..100
TaskRequest_valid(request) ==
    /\ request.task_type \in {"pipeline", "embed_question"}
    /\ request.max_videos >= 1 /\ request.max_videos <= 100

\* create_task: the three tests that raise ValueError
create_task_raises(request) ==
    \/ request.task_type = "embed_question"
    \/ request.task_type = "pipeline" /\ ~request.channel_url
    \/ request.task_type = "embed_question" /\ ~request.question_to_embed

\* FastAPI answers 422 when the body does not validate; a ValueError is not
\* an AppException and is answered by general_exception_handler
HTTP_OK == 200
HTTP_UNPROCESSABLE == 422
HTTP_INTERNAL_ERROR == 500

\* ------------------------------------------------- the videos table's flags
\* download_audio returns the path on success and None on failure; audio_path is
\* NULL until a download succeeded
NoAudio == "None"

AUDIO == "audio.mp3"

\* a video_id without a row; `segments` counts the transcription runs whose
\* segment rows the video holds, `chunks` says that the video has rows of chunks
\* and `embedded` that these rows have their embedding
NoVideoRow == [exists |-> FALSE, downloaded |-> FALSE, transcribed |-> FALSE, audio_path |-> NoAudio,
               segments |-> 0, chunks |-> FALSE, embedded |-> FALSE]

\* register_videos: db.add(Video(video_id=..., channel_id=..., ...)); downloaded and
\* transcribed take the column default False, audio_path is NULL
NewVideo == [exists |-> TRUE, downloaded |-> FALSE, transcribed |-> FALSE, audio_path |-> NoAudio,
             segments |-> 0, chunks |-> FALSE, embedded |-> FALSE]

\* update_video_download_status: if video and audio_path: audio_path, downloaded = True
update_video_download_status(row, audio_path) ==
    IF row.exists /\ audio_path # NoAudio
    THEN [row EXCEPT !.audio_path = audio_path, !.downloaded = TRUE]
    ELSE row

\* register_videos on one entry of videos_data: skip if already exists
register_video(row) == IF row.exists THEN row ELSE NewVideo

\* get_pending_videos: downloaded IS TRUE and transcribed IS FALSE, as dicts
get_pending_videos(videos) ==
    {[video_id |-> v, audio_path |-> videos[v].audio_path] :
        v \in {u \in VideoIds : /\ videos[u].exists
                                /\ videos[u].downloaded
                                /\ ~videos[u].transcribed}}

\* what can happen inside transcribe_video: the file is gone, Whisper or the
\* database raises, or the segments are saved
TranscribeOutcomes == {"saved", "no file", "raised"}

\* transcribe_video: the row after the call. One transaction adds the Segment
\* rows and sets video.transcribed = True; an exception (Whisper, or the foreign
\* key of a segment without its video) leaves the session uncommitted
transcribe_video(row, audio_path, outcome) ==
    IF audio_path = NoAudio \/ outcome = "no file" THEN row
    ELSE IF outcome = "raised" THEN row
    ELSE IF row.exists THEN [row EXCEPT !.transcribed = TRUE, !.segments = @ + 1]
    ELSE row

\* transcribe_video: result["success"]. The file is missing: False. Whisper or the
\* commit raises (the segments of a video whose row is gone break the foreign
\* key): False
transcribe_success(row, audio_path, outcome) ==
    /\ audio_path # NoAudio
    /\ outcome = "saved"
    /\ row.exists

\* transcribe_flow before its loop: {"transcribed": 0, "failed": 0}
NoResult == [transcribed |-> 0, failed |-> 0]

\* process_single_video: if t_res['transcribed'] == 0 and t_res['failed'] > 0: raise
transcription_failed(t_res) == t_res.transcribed = 0 /\ t_res.failed > 0

\* chunk_flow(video_ids=[video_id]) on the video's row: get_transcribed_videos
\* keeps transcribed rows; chunk_video returns at once without segments, else it
\* deletes the video's chunks and inserts the chunks built (`made`: at least one)
chunk_flow_row(row, made) ==
    IF row.exists /\ row.transcribed /\ row.segments > 0
    THEN [row EXCEPT !.chunks = made, !.embedded = FALSE]
    ELSE row

\* embed_flow(video_ids=[video_id], embedding_model) on the video's row: the
\* chunks without embedding get one
embed_flow_row(row) == IF row.exists THEN [row EXCEPT !.embedded = row.chunks] ELSE row

\* no video registered, no flow running. Per worker: the status of its pipeline
\* task, the video_ids of the ingest, the videos whose download gave no file, the
\* video_id of the loop's round, t_res and success_count
EmptyLibrary == [videos          |-> [v \in VideoIds |-> NoVideoRow],
                 new_video_ids   |-> [w \in Workers |-> {}],
                 to_download     |-> [w \in Workers |-> {}],
                 pending         |-> [w \in Workers |-> {}],
                 status          |-> [w \in Workers |-> PENDING],
                 video_ids       |-> [w \in Workers |-> {}],
                 download_failed |-> [w \in Workers |-> {}],
                 video_id        |-> [w \in Workers |-> {}],
                 t_res           |-> [w \in Workers |-> NoResult],
                 success_count   |-> [w \in Workers |-> 0]]

\* ----------------------------------------------------------- the chunker
TARGET_TOKENS == 512
OVERLAP_TOKENS == 100
AVG_CHARS_PER_TOKEN == 4

\* the video chunk_video is called with, and another one with rows in the table
CHUNKED_VIDEO == 1
OTHER_VIDEO == 2

\* len(seg.text.strip()) of a segment; 0 is an empty or blank text
TextLens == {0, 30, 150, 2000, 2100}

\* a row of segments: start_time, end_time, text (by its length)
Segment == [start_time : 0..MaxStart, end_time : 1..(MaxStart + 2), text : TextLens]

\* the segments table of the video, in insertion order
SegmentRows ==
    UNION {{s \in [1..n -> Segment] :
              \A i \in 1..n : s[i].end_time - s[i].start_time \in {1, 2}}
           : n \in 0..MaxSegments}

\* the rows in every order
permutations(rows) ==
    LET n == Len(rows)
    IN  {[i \in 1..n |-> rows[p[i]]] :
            p \in {q \in [1..n -> 1..n] : \A i, j \in 1..n : q[i] = q[j] => i = j}}

\* a query without ORDER BY: the rows in any order
query_segments_unordered(rows) == permutations(rows)

\* db.query(Segment).filter(video_id).order_by(Segment.start_time).all(): the
\* rows by start_time, rows with equal start_time in any order
query_segments(rows) ==
    {s \in permutations(rows) :
        \A i \in 1..(Len(s) - 1) : s[i].start_time <= s[i + 1].start_time}

\* estimate_tokens: math.ceil(text_len / AVG_CHARS_PER_TOKEN)
estimate_tokens(text_len) == (text_len + AVG_CHARS_PER_TOKEN - 1) \div AVG_CHARS_PER_TOKEN

\* chunks.append({...}): from the first to the last of current_segments; the text
\* is the join of their texts, kept as the list of their lengths
new_chunk(current_segments) ==
    [start_time |-> current_segments[1].start_time,
     end_time   |-> current_segments[Len(current_segments)].end_time,
     text       |-> [i \in 1..Len(current_segments) |-> current_segments[i].text]]

\* Handle overlap without popping: the whole buffer is carried over
overlap_nothing_popped(current_segments, current_char_len) ==
    [current_segments |-> current_segments, current_char_len |-> current_char_len]

\* Handle overlap: while current_char_len > overlap_char_limit and
\* len(current_segments) > 1: removed = current_segments.pop(0)
RECURSIVE overlap(_, _)
overlap(current_segments, current_char_len) ==
    IF current_char_len > OVERLAP_TOKENS * AVG_CHARS_PER_TOKEN /\ Len(current_segments) > 1
    THEN overlap(Tail(current_segments), current_char_len - (Head(current_segments).text + 1))
    ELSE [current_segments |-> current_segments, current_char_len |-> current_char_len]

\* for seg in segments: ... from segment i on; `slides` records, per chunk made in
\* the loop, the buffer the overlap step left for the next chunk
RECURSIVE build_chunks(_, _, _, _, _, _)
build_chunks(segments, i, chunks, current_segments, current_char_len, slides) ==
    IF i > Len(segments)
    THEN [chunks |-> chunks, current_segments |-> current_segments,
          current_char_len |-> current_char_len, slides |-> slides]
    ELSE IF segments[i].text = 0
    THEN build_chunks(segments, i + 1, chunks, current_segments, current_char_len, slides)
    ELSE LET appended == Append(current_segments, segments[i])
             char_len == current_char_len + segments[i].text + 1
         IN  IF estimate_tokens(char_len) >= TARGET_TOKENS
             THEN LET kept == overlap(appended, char_len)
                  IN  build_chunks(segments, i + 1, Append(chunks, new_chunk(appended)),
                                   kept.current_segments, kept.current_char_len,
                                   Append(slides, kept))
             ELSE build_chunks(segments, i + 1, chunks, appended, char_len, slides)

\* the state of chunk_video when the loop over the segments is over
built_chunks(segments) == build_chunks(segments, 1, <<>>, <<>>, 0, <<>>)

\* Final chunk without the threshold: whatever is buffered is emitted
final_chunk_any_size(built) == built.current_segments # <<>>

\* Final chunk: if current_segments and estimate_tokens(current_char_len) > 50
final_chunk(built) ==
    built.current_segments # <<>> /\ estimate_tokens(built.current_char_len) > 50

\* Build chunks, then Final chunk: the list chunk_video inserts
chunk_list(segments) ==
    LET built == built_chunks(segments)
    IN  IF final_chunk(built)
        THEN Append(built.chunks, new_chunk(built.current_segments))
        ELSE built.chunks

\* rows of the chunks table that belong to a video, in insertion order
chunks_of(rows, vid) == SelectSeq(rows, LAMBDA r : r.video_id = vid)

\* a chunk_video that inserts without deleting first
delete_nothing(rows, vid) == rows

\* DELETE FROM chunks WHERE video_id = :vid
delete_chunks(rows, vid) == SelectSeq(rows, LAMBDA r : r.video_id # vid)

\* for index, ch in enumerate(chunks): INSERT INTO chunks (video_id, chunk_index, ...)
insert_chunks(rows, vid, chunks) ==
    rows \o [i \in 1..Len(chunks) |->
                [video_id |-> vid, chunk_index |-> i - 1, start_time |-> chunks[i].start_time,
                 end_time |-> chunks[i].end_time, text |-> chunks[i].text]]

\* chunks of another video, already in the table
OtherRows == <<[video_id |-> OTHER_VIDEO, chunk_index |-> 0, start_time |-> 0, end_time |-> 1,
                text |-> <<150>>]>>

\* no segments, no chunk run
NoChunker == [segments |-> <<>>, chunks |-> <<>>, runs |-> 0, returned |-> 0]

\* --------------------------------------------------------- the embed stage
EmbedChunkIds == 1..MaxChunks

\* a chunk row as embed_flow sees it: whether it belongs to one of video_ids,
\* whether its summary is non-empty, whether each vector column is set
EmbedChunk == [selected : BOOLEAN, summary : BOOLEAN, embedding : BOOLEAN,
               summary_embedding : BOOLEAN]

\* count_pending_embeddings: embedding IS NULL, video_id IN video_ids
count_pending_embeddings(chunks) ==
    Cardinality({c \in EmbedChunkIds : chunks[c].selected /\ ~chunks[c].embedding})

\* embed_batch, the query: embedding IS NULL OR summary_embedding IS NULL,
\* video_id IN video_ids
batch_query(chunks) ==
    {c \in EmbedChunkIds :
        chunks[c].selected /\ (~chunks[c].embedding \/ ~chunks[c].summary_embedding)}

\* query.limit(batch_size).all(): any batch_size rows of the query (no ORDER BY)
batches(chunks, batch_size) ==
    LET rows == batch_query(chunks)
    IN  IF Cardinality(rows) <= batch_size THEN {rows}
        ELSE {b \in SUBSET rows : Cardinality(b) = batch_size}

\* an except branch that commits the vectors assigned so far: some of the batch
commit_on_failure(chunks, batch) ==
    [c \in EmbedChunkIds |->
        IF c \in batch /\ \A d \in batch : c <= d
        THEN [chunks[c] EXCEPT !.embedding = TRUE]
        ELSE chunks[c]]

\* except Exception: db.rollback(): nothing of the batch is written
rollback(chunks, batch) == chunks

\* the try block: chunk_obj.embedding for every chunk of the batch,
\* chunk_obj.summary_embedding if chunk_obj.summary; db.commit()
commit_batch(chunks, batch) ==
    [c \in EmbedChunkIds |->
        IF c \in batch
        THEN [chunks[c] EXCEPT !.embedding = TRUE,
                               !.summary_embedding = @ \/ chunks[c].summary]
        ELSE chunks[c]]

\* no embed_flow call
NoEmbedder == [pc |-> "none", chunks |-> [c \in EmbedChunkIds |->
                    [selected |-> FALSE, summary |-> FALSE, embedding |-> FALSE,
                     summary_embedding |-> FALSE]],
               batch_size |-> 0, total_pending |-> 0, embedded |-> 0, failed |-> 0,
               result |-> [processed |-> 0, success |-> TRUE]]

\* ------------------------------------------------------------------ state

Init ==
    /\ tasks = [t \in TaskIds |-> NoRow]
    /\ registered = {}
    /\ lock = [t \in TaskIds |-> NoWorker]
    /\ pc = [w \in Workers |-> "boot"]
    /\ task = [w \in Workers |-> NoTask]
    /\ video = [w \in Workers |-> NoVideo]
    /\ kill_now = [w \in Workers |-> FALSE]
    /\ stuck_tasks = [w \in Workers |-> {}]
    /\ notifies = [w \in Workers |-> FALSE]
    /\ crashes = 0
    /\ stream = NoStream
    /\ sse = NoSse
    /\ retrieval = NoRetrieval
    /\ sql_agent = NoSqlAgent
    /\ http = NoResponse
    /\ library = EmptyLibrary
    /\ chunker = NoChunker
    /\ embedder = NoEmbedder

\* positions at which the worker is executing the row it claimed
RunPcs == {"ingest_upd", "ingest", "task_except", "refresh", "video", "transcribe",
           "chunk", "embed", "finalize", "embedding", "embedding_except"}

\* the sub-stages of process_single_video: a flow call is in progress
StagePcs == {"transcribe", "chunk", "embed"}

\* a commit releases every row lock of the session's transaction
Released(w) == [t \in TaskIds |-> IF lock[t] = w THEN NoWorker ELSE lock[t]]

\* The worker writes its row and commits.  The UPDATE of a row that
\* delete_task removed matches nothing: the flush raises, run_task's own
\* except block raises again, and the exception reaches the worker loop.
Commit(w, row, next) ==
    IF Exists(task[w])
    THEN /\ tasks' = [tasks EXCEPT ![task[w]] = row]
         /\ pc' = [pc EXCEPT ![w] = next]
         /\ task' = IF next = "loop" THEN [task EXCEPT ![w] = NoTask] ELSE task
    ELSE /\ tasks' = tasks
         /\ pc' = [pc EXCEPT ![w] = "loop_err"]
         /\ task' = [task EXCEPT ![w] = NoTask]

\* ------------------------------------------------------ the API, the world

\* The commit of an inserting transaction.  created_at is now(), the start of
\* the transaction, and ids stand for created_at order; concurrent requests
\* commit in any order, so a row may become visible before an older one.
\* The AFTER INSERT trigger: pg_notify('task_queue') reaches the sessions
\* blocked on their LISTEN socket, or is lost
Insert(tt) ==
    /\ \E t \in TaskIds :
          /\ tasks[t].status = ABSENT
          /\ tasks' = [tasks EXCEPT ![t] = NewTask(tt)]
    /\ \E D \in SUBSET {w \in Workers : pc[w] = "select"} :
          notifies' = [w \in Workers |-> notifies[w] \/ w \in D]
    /\ UNCHANGED <<lock, pc, task, video, kill_now, stuck_tasks, crashes, registered, stream, sse, retrieval, sql_agent, http, library, chunker, embedder>>

\* POST /pipeline/tasks
create_task == Insert("pipeline")

\* POST /chat/ask_stream: the embed_question row
ask_stream == Insert("embed_question")

\* a row of another task_type, written to the table by another client
insert_other == Insert("other")

\* DELETE /pipeline/tasks/{id}; the DELETE waits for a row lock
delete_task(t) ==
    /\ Exists(t)
    /\ lock[t] = NoWorker
    /\ tasks' = [tasks EXCEPT ![t] = [NoRow EXCEPT !.status = DELETED]]
    /\ UNCHANGED <<lock, pc, task, video, kill_now, stuck_tasks, notifies, crashes, registered, stream, sse, retrieval, sql_agent, http, library, chunker, embedder>>

\* external cancellation of a task in flight: fail(id, err) on the row
cancel_task(t) ==
    /\ tasks[t].status = RUNNING
    /\ tasks' = [tasks EXCEPT ![t] = [@ EXCEPT !.status = FAILED,
                                               !.error_message = CANCEL_MESSAGE,
                                               !.completed_at = TRUE]]
    /\ UNCHANGED <<lock, pc, task, video, kill_now, stuck_tasks, notifies, crashes, registered, stream, sse, retrieval, sql_agent, http, library, chunker, embedder>>

\* GracefulKiller.exit_gracefully: SIGINT / SIGTERM
exit_gracefully(w) ==
    /\ pc[w] # "exited"
    /\ ~kill_now[w]
    /\ kill_now' = [kill_now EXCEPT ![w] = TRUE]
    /\ UNCHANGED <<tasks, lock, pc, task, video, stuck_tasks, notifies, crashes, registered, stream, sse, retrieval, sql_agent, http, library, chunker, embedder>>

\* the process dies (SIGKILL, OOM, power) and is started again: its
\* transaction is rolled back, its locals are gone, __main__ runs from the top
crash(w) ==
    /\ pc[w] \notin {"exited", "boot"}
    /\ crashes < MaxCrashes
    /\ crashes' = crashes + 1
    /\ lock' = Released(w)
    /\ pc' = [pc EXCEPT ![w] = "boot"]
    /\ task' = [task EXCEPT ![w] = NoTask]
    /\ video' = [video EXCEPT ![w] = NoVideo]
    /\ kill_now' = [kill_now EXCEPT ![w] = FALSE]
    /\ stuck_tasks' = [stuck_tasks EXCEPT ![w] = {}]
    /\ notifies' = [notifies EXCEPT ![w] = FALSE]
    /\ \E r \in ingest_channel_flow_result :
          registered' = IF pc[w] = "ingest" THEN registered \cup r.video_ids ELSE registered
    /\ UNCHANGED <<tasks, stream, sse, retrieval, sql_agent, http, library, chunker, embedder>>

\* ------------------------------------------------------------ worker boot

\* reset_stuck_tasks: SELECT the rows in RUNNING
reset_stuck_select(w) ==
    /\ pc[w] = "boot"
    /\ LET found == {t \in TaskIds : tasks[t].status = RUNNING} IN
          /\ stuck_tasks' = [stuck_tasks EXCEPT ![w] = found]
          /\ pc' = [pc EXCEPT ![w] = IF found = {} THEN "loop" ELSE "reset_commit"]
    /\ UNCHANGED <<tasks, lock, task, video, kill_now, notifies, crashes, registered, stream, sse, retrieval, sql_agent, http, library, chunker, embedder>>

\* reset_stuck_tasks: the loop over stuck_tasks and db.commit().  One UPDATE by
\* primary key per row found, whatever the row has become since the SELECT.
\* A row found and deleted since matches nothing: the flush either raises
\* (nothing is written; __main__ logs and goes on) or writes the other rows,
\* depending on whether the driver reports row counts for the batch.
reset_stuck_commit(w) ==
    /\ pc[w] = "reset_commit"
    /\ \E stale \in {s \in BOOLEAN : s => \E t \in stuck_tasks[w] : ~Exists(t)} :
          tasks' = [t \in TaskIds |->
                      IF t \in stuck_tasks[w] /\ Exists(t) /\ ~stale
                      THEN ResetRow(tasks[t]) ELSE tasks[t]]
    /\ stuck_tasks' = [stuck_tasks EXCEPT ![w] = {}]
    /\ pc' = [pc EXCEPT ![w] = "loop"]
    /\ UNCHANGED <<lock, task, video, kill_now, notifies, crashes, registered, stream, sse, retrieval, sql_agent, http, library, chunker, embedder>>

\* ------------------------------------------------------------ worker loop

\* "while not killer.kill_now" is false: "Worker shutdown complete."
shutdown(w) ==
    /\ pc[w] = "loop"
    /\ ~loop_continues(kill_now[w])
    /\ pc' = [pc EXCEPT ![w] = "exited"]
    /\ UNCHANGED <<tasks, lock, task, video, kill_now, stuck_tasks, notifies, crashes, registered, stream, sse, retrieval, sql_agent, http, library, chunker, embedder>>

\* task = fetch_next_task(db): the row comes back locked, or None comes back
fetch(w) ==
    /\ pc[w] = "loop"
    /\ loop_continues(kill_now[w])
    /\ LET t == fetch_next_task IN
          IF t = NoTask
          THEN /\ pc' = [pc EXCEPT ![w] = "listen"]
               /\ UNCHANGED <<lock, task>>
          ELSE /\ lock' = [lock EXCEPT ![t] = w]
               /\ task' = [task EXCEPT ![w] = t]
               /\ pc' = [pc EXCEPT ![w] = "dispatch"]
    /\ UNCHANGED <<tasks, video, kill_now, stuck_tasks, notifies, crashes, registered, stream, sse, retrieval, sql_agent, http, library, chunker, embedder>>

\* run_task: status = RUNNING ... db.commit()
run_task_claim(w) ==
    /\ pc[w] = "dispatch"
    /\ tasks[task[w]].task_type = "pipeline"
    /\ tasks' = [tasks EXCEPT ![task[w]] = ClaimPipeline(@)]
    /\ lock' = Released(w)
    /\ pc' = [pc EXCEPT ![w] = "ingest_upd"]
    /\ UNCHANGED <<task, video, kill_now, stuck_tasks, notifies, crashes, registered, stream, sse, retrieval, sql_agent, http, library, chunker, embedder>>

\* run_task: update_task_state(db, task, 5, ...), then ingest_channel_flow starts
run_task_ingest_upd(w) ==
    /\ pc[w] = "ingest_upd"
    /\ Commit(w, update_task_state(tasks[task[w]], 5, "Ingesting channel metadata and audio..."),
              "ingest")
    /\ UNCHANGED <<lock, video, kill_now, stuck_tasks, notifies, crashes, registered, stream, sse, retrieval, sql_agent, http, library, chunker, embedder>>

\* run_task: ingest_channel_flow returns the new video_ids, or raises
run_task_ingest(w) ==
    /\ pc[w] = "ingest"
    /\ \E r \in ingest_channel_flow_result :
          /\ registered' = registered \cup r.video_ids
          /\ IF r.raised
             THEN /\ pc' = [pc EXCEPT ![w] = "task_except"]
                  /\ UNCHANGED <<tasks, task, video>>
             ELSE IF r.video_ids = {}
             THEN /\ Commit(w, NoVideos(tasks[task[w]]), "loop")
                  /\ UNCHANGED video
             ELSE /\ Commit(w, update_task_state(tasks[task[w]], 10, "Found new videos."),
                            "refresh")
                  /\ video' = [video EXCEPT ![w] =
                                 IF Exists(task[w])
                                 THEN [total_videos |-> Cardinality(r.video_ids), index |-> 0,
                                       success_count |-> 0, video_ids |-> r.video_ids,
                                       base_progress |-> 0]
                                 ELSE NoVideo]
    /\ UNCHANGED <<lock, kill_now, stuck_tasks, notifies, crashes, stream, sse, retrieval, sql_agent, http, library, chunker, embedder>>

\* run_task: except block and finally
run_task_except(w) ==
    /\ pc[w] = "task_except"
    /\ Commit(w, CriticalFailure(tasks[task[w]], INGEST_ERROR), "loop")
    /\ UNCHANGED <<lock, video, kill_now, stuck_tasks, notifies, crashes, registered, stream, sse, retrieval, sql_agent, http, library, chunker, embedder>>

\* run_task, head of the per-video loop: db.refresh(task) and the check.
\* The refresh of a deleted row raises.
run_task_refresh(w) ==
    /\ pc[w] = "refresh"
    /\ IF ~Exists(task[w])
       THEN /\ pc' = [pc EXCEPT ![w] = "loop_err"]
            /\ task' = [task EXCEPT ![w] = NoTask]
            /\ video' = [video EXCEPT ![w] = NoVideo]
       ELSE /\ pc' = [pc EXCEPT ![w] =
                        IF TaskCancelled(tasks[task[w]]) THEN "finalize" ELSE "video"]
            /\ UNCHANGED <<task, video>>
    /\ UNCHANGED <<tasks, lock, kill_now, stuck_tasks, notifies, crashes, registered, stream, sse, retrieval, sql_agent, http, library, chunker, embedder>>

\* a per-video loop in which a failed video aborts the task
NextVideoAbort(w, is_success) ==
    /\ video' = [video EXCEPT ![w] =
                    [@ EXCEPT !.index = @ + 1, !.base_progress = 0,
                              !.success_count = IF is_success THEN @ + 1 ELSE @]]
    /\ pc' = [pc EXCEPT ![w] = IF is_success THEN "refresh" ELSE "task_except"]

\* process_single_video returned: the for loop goes to the next video_id
NextVideo(w, is_success) ==
    LET v == video[w] IN
    /\ video' = [video EXCEPT ![w] =
                    [v EXCEPT !.index = @ + 1, !.base_progress = 0,
                              !.success_count = IF is_success THEN @ + 1 ELSE @]]
    /\ pc' = [pc EXCEPT ![w] = IF v.index + 1 < v.total_videos THEN "refresh" ELSE "finalize"]

\* One step of process_single_video that ends in update_task_state: the
\* commit on a deleted row raises inside the try, and the video is a failure
VideoCommit(w, progress, current_result, next) ==
    IF Exists(task[w])
    THEN /\ tasks' = [tasks EXCEPT ![task[w]] = update_task_state(@, progress, current_result)]
         /\ pc' = [pc EXCEPT ![w] = next]
         /\ UNCHANGED video
    ELSE /\ NextVideo(w, FALSE)
         /\ UNCHANGED tasks

\* run_task computes current_base and calls process_single_video:
\* update_task_state(p_transcribe), transcribe_flow starts
psv_transcribe_upd(w) ==
    /\ pc[w] = "video"
    /\ IF Exists(task[w])
       THEN \E b \in current_base(video[w].index, video[w].total_videos) :
               /\ tasks' = [tasks EXCEPT ![task[w]] =
                               update_task_state(@, b, "Transcribing video...")]
               /\ video' = [video EXCEPT ![w].base_progress = b]
               /\ pc' = [pc EXCEPT ![w] = "transcribe"]
       ELSE /\ NextVideo(w, FALSE)
            /\ UNCHANGED tasks
    /\ UNCHANGED <<lock, task, kill_now, stuck_tasks, notifies, crashes, registered, stream, sse, retrieval, sql_agent, http, library, chunker, embedder>>

\* process_single_video: transcribe_flow returns; update_task_state(p_chunk),
\* chunk_flow starts
psv_transcribe(w) ==
    /\ pc[w] = "transcribe"
    /\ \E r \in transcribe_flow_result :
          IF r = "ok"
          THEN VideoCommit(w, p_chunk(video[w].base_progress, video[w].total_videos),
                           "Chunking text...", "chunk")
          ELSE NextVideo(w, FALSE) /\ UNCHANGED tasks
    /\ UNCHANGED <<lock, task, kill_now, stuck_tasks, notifies, crashes, registered, stream, sse, retrieval, sql_agent, http, library, chunker, embedder>>

\* process_single_video: chunk_flow returns; update_task_state(p_embed),
\* embed_flow is called
psv_chunk(w) ==
    /\ pc[w] = "chunk"
    /\ \E r \in chunk_flow_result :
          IF r = "ok"
          THEN VideoCommit(w, p_embed(video[w].base_progress, video[w].total_videos),
                           "Generating embeddings...", "embed")
          ELSE NextVideo(w, FALSE) /\ UNCHANGED tasks
    /\ UNCHANGED <<lock, task, kill_now, stuck_tasks, notifies, crashes, registered, stream, sse, retrieval, sql_agent, http, library, chunker, embedder>>

\* process_single_video: the embed_flow call returns or raises
psv_embed(w) ==
    /\ pc[w] = "embed"
    /\ \E r \in embed_flow_result : NextVideo(w, r = "ok")
    /\ UNCHANGED <<tasks, lock, task, kill_now, stuck_tasks, notifies, crashes, registered, stream, sse, retrieval, sql_agent, http, library, chunker, embedder>>

\* run_task: after the loop, the final status and the last commit
run_task_finalize(w) ==
    /\ pc[w] = "finalize"
    /\ Commit(w, Finalize(tasks[task[w]], video[w].success_count, video[w].total_videos), "loop")
    /\ video' = [video EXCEPT ![w] = NoVideo]
    /\ UNCHANGED <<lock, kill_now, stuck_tasks, notifies, crashes, registered, stream, sse, retrieval, sql_agent, http, library, chunker, embedder>>

\* run_embedding: status = RUNNING, update_task_state(10) (the claim)
run_embedding_claim(w) ==
    /\ pc[w] = "dispatch"
    /\ tasks[task[w]].task_type = "embed_question"
    /\ tasks' = [tasks EXCEPT ![task[w]] = ClaimEmbedding(@)]
    /\ lock' = Released(w)
    /\ pc' = [pc EXCEPT ![w] = "embedding"]
    /\ UNCHANGED <<task, video, kill_now, stuck_tasks, notifies, crashes, registered, stream, sse, retrieval, sql_agent, http, library, chunker, embedder>>

\* run_embedding: the embed_question call returns or raises
run_embedding_encode(w) ==
    /\ pc[w] = "embedding"
    /\ \E r \in embed_question_result :
          IF r = "ok"
          THEN Commit(w, EmbeddingDone(tasks[task[w]]), "loop")
          ELSE /\ pc' = [pc EXCEPT ![w] = "embedding_except"]
               /\ UNCHANGED <<tasks, task>>
    /\ UNCHANGED <<lock, video, kill_now, stuck_tasks, notifies, crashes, registered, stream, sse, retrieval, sql_agent, http, library, chunker, embedder>>

\* run_embedding: except block and finally
run_embedding_except(w) ==
    /\ pc[w] = "embedding_except"
    /\ Commit(w, EmbeddingFailure(tasks[task[w]], TYPE_ERROR), "loop")
    /\ UNCHANGED <<lock, video, kill_now, stuck_tasks, notifies, crashes, registered, stream, sse, retrieval, sql_agent, http, library, chunker, embedder>>

\* worker loop, else-branch: "Unsupported task type"
unsupported(w) ==
    /\ pc[w] = "dispatch"
    /\ tasks[task[w]].task_type \notin {"pipeline", "embed_question"}
    /\ tasks' = [tasks EXCEPT ![task[w]] = UnsupportedRow(@)]
    /\ lock' = Released(w)
    /\ task' = [task EXCEPT ![w] = NoTask]
    /\ pc' = [pc EXCEPT ![w] = "loop"]
    /\ UNCHANGED <<video, kill_now, stuck_tasks, notifies, crashes, registered, stream, sse, retrieval, sql_agent, http, library, chunker, embedder>>

\* wait_for_notification: LISTEN task_queue, commit, look for the socket's fd;
\* without one, time.sleep(POLL_INTERVAL)
listen(w) ==
    /\ pc[w] = "listen"
    /\ \E fd \in BOOLEAN : pc' = [pc EXCEPT ![w] = IF fd THEN "select" ELSE "sleep"]
    /\ UNCHANGED <<tasks, lock, task, video, kill_now, stuck_tasks, notifies, crashes, registered, stream, sse, retrieval, sql_agent, http, library, chunker, embedder>>

\* wait_for_notification: select.select returns; poll and drain on data,
\* time.sleep(POLL_INTERVAL) on an exception
select(w) ==
    /\ pc[w] = "select"
    /\ \E r \in select_result(notifies[w]) :
          pc' = [pc EXCEPT ![w] = IF r = "error" THEN "sleep" ELSE "loop"]
    /\ notifies' = [notifies EXCEPT ![w] = FALSE]
    /\ UNCHANGED <<tasks, lock, task, video, kill_now, stuck_tasks, crashes, registered, stream, sse, retrieval, sql_agent, http, library, chunker, embedder>>

\* wait_for_notification: time.sleep(POLL_INTERVAL) is over
sleep(w) ==
    /\ pc[w] = "sleep"
    /\ pc' = [pc EXCEPT ![w] = "loop"]
    /\ UNCHANGED <<tasks, lock, task, video, kill_now, stuck_tasks, notifies, crashes, registered, stream, sse, retrieval, sql_agent, http, library, chunker, embedder>>

\* worker loop: "except Exception", log, time.sleep(5), next iteration
loop_error(w) ==
    /\ pc[w] = "loop_err"
    /\ pc' = [pc EXCEPT ![w] = "loop"]
    /\ UNCHANGED <<tasks, lock, task, video, kill_now, stuck_tasks, notifies, crashes, registered, stream, sse, retrieval, sql_agent, http, library, chunker, embedder>>

\* every step of the worker process w
Worker(w) ==
    \/ reset_stuck_select(w) \/ reset_stuck_commit(w)
    \/ shutdown(w) \/ fetch(w)
    \/ run_task_claim(w) \/ run_task_ingest_upd(w) \/ run_task_ingest(w) \/ run_task_except(w)
    \/ run_task_refresh(w) \/ psv_transcribe_upd(w) \/ psv_transcribe(w) \/ psv_chunk(w)
    \/ psv_embed(w) \/ run_task_finalize(w)
    \/ run_embedding_claim(w) \/ run_embedding_encode(w) \/ run_embedding_except(w)
    \/ unsupported(w)
    \/ listen(w) \/ select(w) \/ sleep(w) \/ loop_error(w)

Next ==
    \/ create_task \/ ask_stream \/ insert_other
    \/ \E t \in TaskIds : delete_task(t) \/ cancel_task(t)
    \/ \E w \in Workers : exit_gracefully(w) \/ crash(w) \/ Worker(w)

Spec == Init /\ [][Next]_vars

\* The steps of worker w on the rows the API inserts
LiveWorker(w) ==
    \/ reset_stuck_select(w) \/ reset_stuck_commit(w)
    \/ shutdown(w) \/ fetch(w)
    \/ run_task_claim(w) \/ run_task_ingest_upd(w) \/ run_task_ingest(w) \/ run_task_except(w)
    \/ run_task_refresh(w) \/ psv_transcribe_upd(w) \/ psv_transcribe(w) \/ psv_chunk(w)
    \/ psv_embed(w) \/ run_task_finalize(w)
    \/ run_embedding_claim(w) \/ run_embedding_encode(w) \/ run_embedding_except(w)
    \/ listen(w) \/ select(w) \/ sleep(w) \/ loop_error(w)

\* The system while no process is killed outright and nobody writes to the
\* table behind the API: inserts and deletes, signals, the workers' steps
NextLive ==
    \/ create_task \/ ask_stream
    \/ \E t \in TaskIds : delete_task(t)
    \/ \E w \in Workers : exit_gracefully(w) \/ LiveWorker(w)

\* A live process keeps executing: every blocking call of the loop has a
\* timeout, and every flow call returns or raises
FairSpec == Init /\ [][NextLive]_vars /\ \A w \in Workers : WF_vars(LiveWorker(w))

\* The system of FairSpec with processes that may be killed outright and are
\* started again
NextCrash == NextLive \/ \E w \in Workers : crash(w)

\* A process that was killed is started again and, like a live one, keeps executing
CrashSpec == Init /\ [][NextCrash]_vars /\ \A w \in Workers : WF_vars(LiveWorker(w))

\* A pipeline row that worker 1 claimed and whose ingest found total_videos
\* new videos: the row after "Found ... new videos. Starting processing..."
FoundVideosRow ==
    update_task_state(update_task_state(ClaimPipeline(NewTask("pipeline")), 5,
                                        "Ingesting channel metadata and audio..."),
                      10, "Found new videos.")

\* The per-video loop of run_task is over: every total_videos in 1..MaxTotal
\* with every success_count the loop can have counted
FinalizeInit ==
    /\ tasks = [t \in TaskIds |-> IF t = 1 THEN FoundVideosRow ELSE NoRow]
    /\ lock = [t \in TaskIds |-> NoWorker]
    /\ pc = [w \in Workers |-> IF w = 1 THEN "finalize" ELSE "boot"]
    /\ task = [w \in Workers |-> IF w = 1 THEN 1 ELSE NoTask]
    /\ \E n \in 1..MaxTotal, s \in 0..MaxTotal :
          /\ s <= n
          /\ registered = 1..n
          /\ video = [w \in Workers |->
                        IF w = 1 THEN [total_videos |-> n, index |-> n, success_count |-> s,
                                       video_ids |-> 1..n, base_progress |-> 0]
                        ELSE NoVideo]
    /\ kill_now = [w \in Workers |-> FALSE]
    /\ stuck_tasks = [w \in Workers |-> {}]
    /\ notifies = [w \in Workers |-> FALSE]
    /\ crashes = 0
    /\ stream = NoStream
    /\ sse = NoSse
    /\ retrieval = NoRetrieval
    /\ sql_agent = NoSqlAgent
    /\ http = NoResponse
    /\ library = EmptyLibrary
    /\ chunker = NoChunker
    /\ embedder = NoEmbedder

FinalizeNext == \E w \in Workers : run_task_finalize(w)

\* the finalization of run_task as a function of (success_count, total_videos)
FinalizeSpec == FinalizeInit /\ [][FinalizeNext]_vars

\* run_task right after "Found N new videos": every N in 1..MaxTotal
ProgressInit ==
    /\ tasks = [t \in TaskIds |-> IF t = 1 THEN FoundVideosRow ELSE NoRow]
    /\ lock = [t \in TaskIds |-> NoWorker]
    /\ pc = [w \in Workers |-> IF w = 1 THEN "refresh" ELSE "boot"]
    /\ task = [w \in Workers |-> IF w = 1 THEN 1 ELSE NoTask]
    /\ \E n \in 1..MaxTotal :
          /\ registered = 1..n
          /\ video = [w \in Workers |->
                        IF w = 1 THEN [NoVideo EXCEPT !.total_videos = n, !.video_ids = 1..n]
                        ELSE NoVideo]
    /\ kill_now = [w \in Workers |-> FALSE]
    /\ stuck_tasks = [w \in Workers |-> {}]
    /\ notifies = [w \in Workers |-> FALSE]
    /\ crashes = 0
    /\ stream = NoStream
    /\ sse = NoSse
    /\ retrieval = NoRetrieval
    /\ sql_agent = NoSqlAgent
    /\ http = NoResponse
    /\ library = EmptyLibrary
    /\ chunker = NoChunker
    /\ embedder = NoEmbedder

\* the per-video loop of run_task and its finalization
ProgressNext ==
    \E w \in Workers :
        \/ run_task_refresh(w) \/ psv_transcribe_upd(w) \/ psv_transcribe(w)
        \/ psv_chunk(w) \/ psv_embed(w) \/ run_task_finalize(w)

ProgressSpec == ProgressInit /\ [][ProgressNext]_vars

\* ---------------------------------------------- POST /chat/ask_stream, streamed

\* everything the generator's steps leave alone
WorkerVars == <<tasks, lock, pc, task, video, kill_now, stuck_tasks, notifies, crashes,
                registered, sse, retrieval, sql_agent, http, library, chunker, embedder>>

\* an ask_stream that saves what it has in a finally block
stream_raise_persisting(s, e) ==
    [s EXCEPT !.pc = "aborted", !.error = e,
              !.messages = add_message(add_message(@, "user", <<QUESTION>>, <<>>),
                                       "assistant", s.answer_text, s.sources)]

\* an exception leaves the generator: no statement after the raising one runs
stream_raise(s, e) == [s EXCEPT !.pc = "aborted", !.error = e]

\* ask_stream up to its first yield: get_or_create, upsert_chat_videos,
\* the session_id event
stream_session ==
    /\ stream.pc = "created"
    /\ stream' = [yield(stream, "session_id", <<"session">>) EXCEPT !.pc = "classify"]
    /\ UNCHANGED WorkerVars

\* _classify_intent and get_chat_video_ids; llm_service.generate re-raises
stream_classify ==
    /\ stream.pc = "classify"
    /\ \E r \in Intents \cup {"raise"} :
          stream' = IF r = "raise" THEN stream_raise(stream, "LLMError")
                    ELSE [stream EXCEPT !.intent = r,
                                        !.pc = CASE r = "METADATA" -> "metadata"
                                                 [] r = "CONTENT_GLOBAL" -> "global"
                                                 [] OTHER -> "wait"]
    /\ UNCHANGED WorkerVars

\* METADATA: _handle_metadata_query, one content event with the whole answer;
\* _generate_sql calls llm.generate outside the try block of handle
stream_metadata ==
    /\ stream.pc = "metadata"
    /\ \E r \in {"ok", "raise"} :
          stream' = IF r = "raise" THEN stream_raise(stream, "LLMError")
                    ELSE [yield(stream, "content", <<METADATA_ANSWER>>) EXCEPT
                              !.answer_text = <<METADATA_ANSWER>>, !.pc = "persist_user"]
    /\ UNCHANGED WorkerVars

\* CONTENT_GLOBAL: handle_content_global up to its first event.  Without rows
\* that event is a content event whose data is a tuple (text, []), and
\* answer_text += event["data"] raises TypeError before the event is sent
stream_global ==
    /\ stream.pc = "global"
    /\ \E rows \in global_rows :
          stream' = IF rows = "none" THEN stream_raise(stream, "TypeError")
                    ELSE LET sources == IF rows = "blank" THEN <<>> ELSE <<SOURCE>> IN
                         [yield(stream, "sources", sources) EXCEPT
                              !.sources = sources, !.pc = "tokens"]
    /\ UNCHANGED WorkerVars

\* CONTENT: one iteration of _wait_for_embedding; the clock passes the
\* timeout at the latest after MaxPolls sleeps
stream_wait ==
    /\ stream.pc = "wait"
    /\ \E late \in BOOLEAN :
          LET o == wait_outcome(tasks[stream.task], late \/ stream.polls >= MaxPolls) IN
          stream' = CASE o = "return" -> [stream EXCEPT !.pc = "retrieve"]
                      [] o = "sleep" -> [stream EXCEPT !.polls = @ + 1]
                      [] OTHER -> stream_raise(stream, o)
    /\ UNCHANGED WorkerVars

\* CONTENT: get_recent_context, search_hybrid; without chunks one content
\* event, else the sources event
stream_retrieve ==
    /\ stream.pc = "retrieve"
    /\ \E chunks \in search_hybrid \cup {<<"raise">>} :
          stream' = IF chunks = <<"raise">> THEN stream_raise(stream, "RetrieverError")
                    ELSE IF chunks = <<>>
                    THEN [yield(stream, "content", <<NOT_FOUND_ANSWER>>) EXCEPT
                              !.answer_text = <<NOT_FOUND_ANSWER>>, !.pc = "persist_user"]
                    ELSE [yield(stream, "sources", chunks) EXCEPT
                              !.sources = chunks, !.pc = "tokens"]
    /\ UNCHANGED WorkerVars

\* for token in generate_stream: answer_text += token, one content event
stream_token ==
    /\ stream.pc = "tokens"
    /\ Len(stream.answer_text) < MaxTokens
    /\ \E token \in Tokens :
          stream' = [yield(stream, "content", <<token>>) EXCEPT
                         !.answer_text = Append(@, token)]
    /\ UNCHANGED WorkerVars

\* generate_stream is exhausted
stream_tokens_end ==
    /\ stream.pc = "tokens"
    /\ stream' = [stream EXCEPT !.pc = "persist_user"]
    /\ UNCHANGED WorkerVars

\* add_message(session.id, "user", question)
stream_persist_user ==
    /\ stream.pc = "persist_user"
    /\ stream' = [stream EXCEPT !.messages = add_message(@, "user", <<QUESTION>>, <<>>),
                                !.pc = "persist_assistant"]
    /\ UNCHANGED WorkerVars

\* add_message(session.id, "assistant", answer_text, sources); the
\* generator returns
stream_persist_assistant ==
    /\ stream.pc = "persist_assistant"
    /\ stream' = [stream EXCEPT
                      !.messages = add_message(@, "assistant", stream.answer_text,
                                               stream.sources),
                      !.pc = "closed"]
    /\ UNCHANGED WorkerVars

\* the generator is suspended at a yield: after the session_id event, after
\* the sources event or a token, after the single content event of the
\* METADATA path or of an empty retrieval
AtYield ==
    \/ stream.pc \in {"classify", "tokens"}
    \/ /\ stream.pc = "persist_user"
       /\ \/ stream.intent = "METADATA"
          \/ stream.intent = "CONTENT" /\ stream.sources = <<>>

\* the client goes away: the response is cancelled and the generator is
\* closed where it is suspended (GeneratorExit at the yield)
stream_disconnect ==
    /\ AtYield
    /\ stream' = stream_raise(stream, "GeneratorExit")
    /\ UNCHANGED WorkerVars

\* every step of the generator
AskStream ==
    \/ stream_session \/ stream_classify \/ stream_metadata \/ stream_global
    \/ stream_wait \/ stream_retrieve \/ stream_token \/ stream_tokens_end
    \/ stream_persist_user \/ stream_persist_assistant

\* the steps of worker w on embed_question rows
AskWorker(w) ==
    \/ reset_stuck_select(w) \/ reset_stuck_commit(w) \/ fetch(w)
    \/ run_embedding_claim(w) \/ run_embedding_encode(w) \/ run_embedding_except(w)
    \/ listen(w) \/ select(w) \/ sleep(w) \/ loop_error(w)

\* The endpoint has committed the embed_question row and returned the
\* StreamingResponse.  The row is as inserted, or as run_embedding leaves it
\* once embed_question has returned a vector
AskInit ==
    /\ \E r \in {NewTask("embed_question"),
                 EmbeddingDone(ClaimEmbedding(NewTask("embed_question")))} :
          tasks = [t \in TaskIds |-> IF t = 1 THEN r ELSE NoRow]
    /\ registered = {}
    /\ lock = [t \in TaskIds |-> NoWorker]
    /\ pc = [w \in Workers |-> "boot"]
    /\ task = [w \in Workers |-> NoTask]
    /\ video = [w \in Workers |-> NoVideo]
    /\ kill_now = [w \in Workers |-> FALSE]
    /\ stuck_tasks = [w \in Workers |-> {}]
    /\ notifies = [w \in Workers |-> FALSE]
    /\ crashes = 0
    /\ stream = [NoStream EXCEPT !.pc = "created", !.task = 1]
    /\ sse = NoSse
    /\ retrieval = NoRetrieval
    /\ sql_agent = NoSqlAgent
    /\ http = NoResponse
    /\ library = EmptyLibrary
    /\ chunker = NoChunker
    /\ embedder = NoEmbedder

\* the response is streamed while the workers run, other questions arrive
\* and rows are deleted
AskNext ==
    \/ AskStream
    \/ stream_disconnect
    \/ ask_stream
    \/ \E t \in TaskIds : delete_task(t)
    \/ \E w \in Workers : AskWorker(w)

\* the server keeps iterating the generator
AskSpec == AskInit /\ [][AskNext]_vars /\ WF_vars(AskStream)

\* ------------------------------------------------- GET /pipeline/events

\* everything the subscriber's steps leave alone
SseFrame == <<tasks, lock, pc, task, video, kill_now, stuck_tasks, notifies, crashes,
              registered, stream, retrieval, sql_agent, http, library, chunker, embedder>>

\* event_generator up to the "connected" event: the terminal tasks of the
\* moment are recorded as seen
sse_connect ==
    /\ sse.pc = "none"
    /\ sse' = [sse EXCEPT !.pc = "poll",
                          !.seen_task_states =
                              [t \in TaskIds |-> IF t \in terminal_tasks THEN tasks[t].status
                                                 ELSE UNSEEN]]
    /\ UNCHANGED SseFrame

\* one cycle of the poll loop: expire_all, the query, one task_update per
\* row with a new status and a completed_at, the heartbeat, sleep(5).
\* Counts stop at MaxEmits
sse_poll ==
    /\ sse.pc = "poll"
    /\ \E found \in limit(terminal_tasks, POLL_LIMIT) :
          LET new == {t \in found : is_new(sse.seen_task_states, t)} IN
          sse' = [sse EXCEPT
                     !.seen_task_states =
                         [t \in TaskIds |-> IF t \in new THEN tasks[t].status ELSE @[t]],
                     !.emitted =
                         [t \in TaskIds |-> [s \in Terminal |->
                             IF t \in new /\ notified(t) /\ s = tasks[t].status /\ @[t][s] < MaxEmits
                             THEN @[t][s] + 1 ELSE @[t][s]]]]
    /\ UNCHANGED SseFrame

\* the steps of a worker that is sent no signal
SseWorker(w) ==
    \/ reset_stuck_select(w) \/ reset_stuck_commit(w) \/ fetch(w)
    \/ run_task_claim(w) \/ run_task_ingest_upd(w) \/ run_task_ingest(w) \/ run_task_except(w)
    \/ run_task_refresh(w) \/ psv_transcribe_upd(w) \/ psv_transcribe(w) \/ psv_chunk(w)
    \/ psv_embed(w) \/ run_task_finalize(w)
    \/ run_embedding_claim(w) \/ run_embedding_encode(w) \/ run_embedding_except(w)
    \/ unsupported(w)
    \/ listen(w) \/ select(w) \/ sleep(w) \/ loop_error(w)

\* a subscriber connects at any moment and polls while the API accepts
\* tasks, rows are deleted or cancelled and the workers run
SseNext ==
    \/ sse_connect \/ sse_poll
    \/ create_task \/ ask_stream \/ insert_other
    \/ \E t \in TaskIds : delete_task(t) \/ cancel_task(t)
    \/ \E w \in Workers : SseWorker(w)

\* the event loop keeps running the subscriber's poll cycle
SseSpec == Init /\ [][SseNext]_vars /\ WF_vars(sse_poll)

\* --------------------------------------- the retrieval of the CONTENT path

\* everything the retrieval leaves alone
RetrievalFrame == <<tasks, lock, pc, task, video, kill_now, stuck_tasks, notifies, crashes,
                    registered, stream, sse, sql_agent, http, library, chunker, embedder>>

\* ask_stream: video_ids = get_chat_video_ids(channel_id, video_ids)
retrieval_video_ids ==
    /\ retrieval.pc = "ask"
    /\ retrieval' = [retrieval EXCEPT
                        !.video_ids = get_chat_video_ids(retrieval.channel_of,
                                                         retrieval.channel_id,
                                                         retrieval.requested),
                        !.pc = "search"]
    /\ UNCHANGED RetrievalFrame

\* search_hybrid: "if not video_ids: return []", else the query
retrieval_search ==
    /\ retrieval.pc = "search"
    /\ IF retrieval.video_ids = {}
       THEN retrieval' = [retrieval EXCEPT !.chunks = <<>>, !.pc = "done"]
       ELSE \E chunks \in search_hybrid_query(retrieval) :
               retrieval' = [retrieval EXCEPT !.queried = TRUE, !.chunks = chunks,
                                              !.pc = "done"]
    /\ UNCHANGED RetrievalFrame

\* A CONTENT question for any channel and any selection of videos, over any
\* assignment of the videos to channels and any set of chunks that have an
\* embedding or match the question
RetrievalInit ==
    /\ tasks = [t \in TaskIds |-> NoRow]
    /\ registered = {}
    /\ lock = [t \in TaskIds |-> NoWorker]
    /\ pc = [w \in Workers |-> "boot"]
    /\ task = [w \in Workers |-> NoTask]
    /\ video = [w \in Workers |-> NoVideo]
    /\ kill_now = [w \in Workers |-> FALSE]
    /\ stuck_tasks = [w \in Workers |-> {}]
    /\ notifies = [w \in Workers |-> FALSE]
    /\ crashes = 0
    /\ stream = NoStream
    /\ sse = NoSse
    /\ sql_agent = NoSqlAgent
    /\ http = NoResponse
    /\ library = EmptyLibrary
    /\ chunker = NoChunker
    /\ embedder = NoEmbedder
    /\ \E channel_of \in [LibraryVideos -> Channels], has_vector \in SUBSET ChunkIds,
          text_match \in SUBSET ChunkIds, channel_id \in Channels,
          requested \in SUBSET LibraryVideos, top_k \in 1..MaxTopK :
          retrieval = [NoRetrieval EXCEPT !.pc = "ask", !.channel_of = channel_of,
                                          !.has_vector = has_vector, !.text_match = text_match,
                                          !.channel_id = channel_id, !.requested = requested,
                                          !.top_k = top_k]

RetrievalNext == retrieval_video_ids \/ retrieval_search

RetrievalSpec == RetrievalInit /\ [][RetrievalNext]_vars

\* ------------------------------------------- the METADATA path: SQL agent

\* everything the SQL agent leaves alone
SqlFrame == <<tasks, lock, pc, task, video, kill_now, stuck_tasks, notifies, crashes,
              registered, stream, sse, retrieval, http, library, chunker, embedder>>

\* handle: sql_query = self._generate_sql(question)
sql_generate ==
    /\ sql_agent.pc = "generate"
    /\ sql_agent' = [sql_agent EXCEPT !.sql_query = clean_sql(sql_agent.response),
                                      !.pc = "handle"]
    /\ UNCHANGED SqlFrame

\* handle: the SELECT test, then db.execute(text(sql_query)) and the summary
\* (or the error text when the database raises)
sql_handle ==
    /\ sql_agent.pc = "handle"
    /\ IF ~is_select(sql_agent.sql_query)
       THEN sql_agent' = [sql_agent EXCEPT
                              !.answer = "I can only perform read operations (SELECT).",
                              !.pc = "done"]
       ELSE \E answer \in {"summary", "I tried to query the database, but an error occurred"} :
               sql_agent' = [sql_agent EXCEPT !.executed = TRUE, !.answer = answer,
                                              !.pc = "done"]
    /\ UNCHANGED SqlFrame

\* a METADATA question, for every reply of the LLM
SqlInit ==
    /\ tasks = [t \in TaskIds |-> NoRow]
    /\ registered = {}
    /\ lock = [t \in TaskIds |-> NoWorker]
    /\ pc = [w \in Workers |-> "boot"]
    /\ task = [w \in Workers |-> NoTask]
    /\ video = [w \in Workers |-> NoVideo]
    /\ kill_now = [w \in Workers |-> FALSE]
    /\ stuck_tasks = [w \in Workers |-> {}]
    /\ notifies = [w \in Workers |-> FALSE]
    /\ crashes = 0
    /\ stream = NoStream
    /\ sse = NoSse
    /\ retrieval = NoRetrieval
    /\ http = NoResponse
    /\ library = EmptyLibrary
    /\ chunker = NoChunker
    /\ embedder = NoEmbedder
    /\ \E response \in LlmReplies :
          sql_agent = [NoSqlAgent EXCEPT !.pc = "generate", !.response = response]

SqlNext == sql_generate \/ sql_handle

SqlSpec == SqlInit /\ [][SqlNext]_vars

\* ------------------------------------------- POST /pipeline/tasks, in full

\* everything the endpoint leaves alone
SubmitFrame == <<lock, pc, task, video, kill_now, stuck_tasks, crashes, registered, stream,
                 sse, retrieval, sql_agent, library, chunker, embedder>>

\* create_task with its request: validation of the body, the ValueError
\* tests, the INSERT of the pending row and its commit
post_tasks ==
    /\ \E request \in TaskRequests :
          IF ~TaskRequest_valid(request)
          THEN /\ http' = [status_code |-> HTTP_UNPROCESSABLE, task_id |-> NoTask,
                           request |-> request]
               /\ UNCHANGED <<tasks, notifies>>
          ELSE IF create_task_raises(request)
          THEN /\ http' = [status_code |-> HTTP_INTERNAL_ERROR, task_id |-> NoTask,
                           request |-> request]
               /\ UNCHANGED <<tasks, notifies>>
          ELSE \E t \in TaskIds :
                  /\ tasks[t].status = ABSENT
                  /\ tasks' = [tasks EXCEPT ![t] = NewTask(request.task_type)]
                  /\ \E D \in SUBSET {w \in Workers : pc[w] = "select"} :
                        notifies' = [w \in Workers |-> notifies[w] \/ w \in D]
                  /\ http' = [status_code |-> HTTP_OK, task_id |-> t, request |-> request]
    /\ UNCHANGED SubmitFrame

\* requests of every shape arrive while rows are deleted
SubmitNext == post_tasks \/ \E t \in TaskIds : delete_task(t)

SubmitSpec == Init /\ [][SubmitNext]_vars

\* ------------------------------------- ingest and transcribe on the videos table
\* everything the two flows leave alone
LibraryFrame == <<tasks, lock, pc, task, video, kill_now, stuck_tasks, notifies, crashes,
                  registered, stream, sse, retrieval, sql_agent, http, chunker, embedder>>

\* worker w runs no pipeline task
flow_idle(w) == library.status[w] # RUNNING

\* run_task up to ingest_channel_flow, step 3: new_video_ids = register_videos(
\* channel_id, videos_data). Without a new video the task is completed at once
\* ("if not video_ids"); `new_video_ids` is what the per-video loop has left
ingest_register(w) ==
    /\ flow_idle(w)
    /\ \E videos_data \in SUBSET VideoIds :
        /\ videos_data # {}
        /\ LET new_video_ids == {v \in videos_data : ~library.videos[v].exists}
           IN  library' = [library EXCEPT
                    !.videos = [v \in VideoIds |->
                                  IF v \in videos_data THEN register_video(@[v]) ELSE @[v]],
                    !.new_video_ids[w] = new_video_ids,
                    !.to_download[w] = new_video_ids,
                    !.status[w] = IF new_video_ids = {}
                                  THEN NoVideos(NewTask("pipeline")).status ELSE RUNNING,
                    !.video_ids[w] = new_video_ids,
                    !.download_failed[w] = {},
                    !.video_id[w] = {},
                    !.t_res[w] = NoResult,
                    !.success_count[w] = 0]
    /\ UNCHANGED LibraryFrame

\* ingest_channel_flow, step 4, one round of the loop:
\* audio_path = download_audio(video_id); update_video_download_status(video_id, audio_path)
ingest_download(w) ==
    /\ \E v \in library.to_download[w], audio_path \in {NoAudio, AUDIO} :
        library' = [library EXCEPT
            !.videos[v] = update_video_download_status(@, audio_path),
            !.to_download[w] = @ \ {v},
            !.download_failed[w] = IF audio_path = NoAudio THEN @ \cup {v} ELSE @]
    /\ UNCHANGED LibraryFrame

\* process_single_video for the next video of the task: transcribe_flow(video_ids=
\* [video_id]): pending = get_pending_videos(), filtered by video_ids
transcribe_pending(w) ==
    /\ library.status[w] = RUNNING
    /\ library.to_download[w] = {}
    /\ library.video_id[w] = {}
    /\ \E video_id \in library.new_video_ids[w] :
        library' = [library EXCEPT
            !.pending[w] = {p \in get_pending_videos(library.videos) : p.video_id \in {video_id}},
            !.new_video_ids[w] = @ \ {video_id},
            !.video_id[w] = {video_id},
            !.t_res[w] = NoResult]
    /\ UNCHANGED LibraryFrame

\* transcribe_flow, one round of the loop: result = transcribe_video(video_id,
\* audio_path); transcribed += 1 or failed += 1
transcribe_next(w) ==
    /\ \E p \in library.pending[w], outcome \in TranscribeOutcomes :
        LET row == library.videos[p.video_id]
            success == transcribe_success(row, p.audio_path, outcome)
        IN  library' = [library EXCEPT
                !.videos[p.video_id] = transcribe_video(@, p.audio_path, outcome),
                !.pending[w] = @ \ {p},
                !.t_res[w] = IF success THEN [@ EXCEPT !.transcribed = @ + 1]
                                        ELSE [@ EXCEPT !.failed = @ + 1]]
    /\ UNCHANGED LibraryFrame

\* process_single_video once transcribe_flow has returned: the raise on a failed
\* transcription, chunk_flow, embed_flow, return True; any exception returns
\* False. run_task: if is_success: success_count += 1
process_single_video(w) ==
    /\ library.pending[w] = {}
    /\ \E video_id \in library.video_id[w], c \in chunk_flow_result, e \in embed_flow_result,
          made \in BOOLEAN :
        LET row        == library.videos[video_id]
            chunked    == chunk_flow_row(row, made)
            embedded   == embed_flow_row(chunked)
            raised     == transcription_failed(library.t_res[w]) \/ c = "raise" \/ e = "raise"
            is_success == ~raised
        IN  library' = [library EXCEPT
                !.videos[video_id] = IF transcription_failed(library.t_res[w]) \/ c = "raise"
                                     THEN row
                                     ELSE IF e = "raise" THEN chunked ELSE embedded,
                !.video_id[w] = {},
                !.success_count[w] = IF is_success THEN @ + 1 ELSE @]
    /\ UNCHANGED LibraryFrame

\* run_task after the per-video loop: the final status
finish_task(w) ==
    /\ library.status[w] = RUNNING
    /\ library.to_download[w] = {}
    /\ library.new_video_ids[w] = {}
    /\ library.video_id[w] = {}
    /\ library' = [library EXCEPT
            !.status[w] = Finalize(NewTask("pipeline"), library.success_count[w],
                                   Cardinality(library.video_ids[w])).status]
    /\ UNCHANGED LibraryFrame

\* DELETE /channels/{id}: the channel's videos go with it (cascade)
delete_channel ==
    /\ \E v \in VideoIds : library.videos[v].exists
    /\ library' = [library EXCEPT !.videos = [v \in VideoIds |-> NoVideoRow]]
    /\ UNCHANGED LibraryFrame

\* the worker process dies inside a pipeline task; the next boot fails the row
flow_killed(w) ==
    /\ ~flow_idle(w)
    /\ library' = [library EXCEPT !.new_video_ids[w] = {}, !.to_download[w] = {},
                                   !.pending[w] = {}, !.video_id[w] = {},
                                   !.status[w] = FAILED]
    /\ UNCHANGED LibraryFrame

LibraryNext ==
    \/ \E w \in Workers :
        \/ ingest_register(w)
        \/ ingest_download(w)
        \/ transcribe_pending(w)
        \/ transcribe_next(w)
        \/ process_single_video(w)
        \/ finish_task(w)
        \/ flow_killed(w)
    \/ delete_channel

LibrarySpec == Init /\ [][LibraryNext]_vars

\* ---------------------------------------------------- chunk_video, run by run
\* everything chunk_video leaves alone
ChunkFrame == <<tasks, lock, pc, task, video, kill_now, stuck_tasks, notifies, crashes,
                registered, stream, sse, retrieval, sql_agent, http, library, embedder>>

\* chunk_video(video_id), one transaction: no segments, return; build the chunks
\* (llm_service.generate per chunk, which may raise); DELETE, INSERT, commit
chunk_video ==
    /\ chunker.runs < MaxRuns
    /\ \E segments \in query_segments(chunker.segments), llm \in {"ok", "raise"} :
        LET chunks == chunk_list(segments)
        IN  chunker' =
                IF segments = <<>>
                THEN [chunker EXCEPT !.runs = @ + 1, !.returned = @ + 1]
                ELSE IF llm = "raise" /\ chunks # <<>>
                THEN [chunker EXCEPT !.runs = @ + 1]
                ELSE [chunker EXCEPT
                        !.runs = @ + 1,
                        !.returned = @ + 1,
                        !.chunks = insert_chunks(delete_chunks(@, CHUNKED_VIDEO),
                                                 CHUNKED_VIDEO, chunks)]
    /\ UNCHANGED ChunkFrame

ChunkInit ==
    /\ tasks = [t \in TaskIds |-> NoRow]
    /\ registered = {}
    /\ lock = [t \in TaskIds |-> NoWorker]
    /\ pc = [w \in Workers |-> "boot"]
    /\ task = [w \in Workers |-> NoTask]
    /\ video = [w \in Workers |-> NoVideo]
    /\ kill_now = [w \in Workers |-> FALSE]
    /\ stuck_tasks = [w \in Workers |-> {}]
    /\ notifies = [w \in Workers |-> FALSE]
    /\ crashes = 0
    /\ stream = NoStream
    /\ sse = NoSse
    /\ retrieval = NoRetrieval
    /\ sql_agent = NoSqlAgent
    /\ http = NoResponse
    /\ library = EmptyLibrary
    /\ \E segments \in SegmentRows :
          chunker = [NoChunker EXCEPT !.segments = segments, !.chunks = OtherRows]
    /\ embedder = NoEmbedder

ChunkNext == chunk_video

ChunkSpec == ChunkInit /\ [][ChunkNext]_vars

\* ------------------------------------------------------- embed_flow, in full
\* everything embed_flow leaves alone
EmbedFrame == <<tasks, lock, pc, task, video, kill_now, stuck_tasks, notifies, crashes,
                registered, stream, sse, retrieval, sql_agent, http, library, chunker>>

\* embed_flow: total_pending = count_pending_embeddings(video_ids);
\* if total_pending == 0: return {"embedded": 0, "failed": 0}
embed_count ==
    /\ embedder.pc = "count"
    /\ LET total_pending == count_pending_embeddings(embedder.chunks)
       IN  embedder' = [embedder EXCEPT
                !.total_pending = total_pending,
                !.pc = IF total_pending = 0 THEN "returned" ELSE "loop"]
    /\ UNCHANGED EmbedFrame

\* one round of while True: result = embed_batch(...)
embed_batch ==
    /\ embedder.pc = "loop"
    /\ \E batch \in batches(embedder.chunks, embedder.batch_size),
          encode \in {"encoded", "raised"} :
        embedder' =
            IF batch = {}
            THEN \* if not batch: return processed 0, success True; break
                 [embedder EXCEPT !.result = [processed |-> 0, success |-> TRUE],
                                  !.pc = "returned"]
            ELSE IF encode = "raised"
            THEN \* rollback; processed 0, success False; failed += batch_size; break
                 [embedder EXCEPT !.chunks = rollback(@, batch),
                                  !.result = [processed |-> 0, success |-> FALSE],
                                  !.failed = @ + embedder.batch_size,
                                  !.pc = "returned"]
            ELSE \* commit; embedded += processed; if embedded >= total_pending: break
                 [embedder EXCEPT !.chunks = commit_batch(@, batch),
                                  !.result = [processed |-> Cardinality(batch),
                                              success |-> TRUE],
                                  !.embedded = @ + Cardinality(batch),
                                  !.pc = IF embedder.embedded + Cardinality(batch)
                                              >= embedder.total_pending
                                         THEN "returned" ELSE "loop"]
    /\ UNCHANGED EmbedFrame

EmbedInit ==
    /\ tasks = [t \in TaskIds |-> NoRow]
    /\ registered = {}
    /\ lock = [t \in TaskIds |-> NoWorker]
    /\ pc = [w \in Workers |-> "boot"]
    /\ task = [w \in Workers |-> NoTask]
    /\ video = [w \in Workers |-> NoVideo]
    /\ kill_now = [w \in Workers |-> FALSE]
    /\ stuck_tasks = [w \in Workers |-> {}]
    /\ notifies = [w \in Workers |-> FALSE]
    /\ crashes = 0
    /\ stream = NoStream
    /\ sse = NoSse
    /\ retrieval = NoRetrieval
    /\ sql_agent = NoSqlAgent
    /\ http = NoResponse
    /\ library = EmptyLibrary
    /\ chunker = NoChunker
    /\ \E chunks \in [EmbedChunkIds -> EmbedChunk], batch_size \in 1..MaxBatch :
        /\ \A c \in EmbedChunkIds :
            \* a vector column is set by embed_batch only: the summary's with the text's,
            \* and only for a non-empty summary
            /\ chunks[c].summary_embedding => chunks[c].embedding /\ chunks[c].summary
            /\ chunks[c].embedding /\ chunks[c].summary => chunks[c].summary_embedding
        /\ embedder = [NoEmbedder EXCEPT !.pc = "count", !.chunks = chunks,
                                         !.batch_size = batch_size]

EmbedNext == embed_count \/ embed_batch

EmbedSpec == EmbedInit /\ [][EmbedNext]_vars /\ WF_vars(EmbedNext)

\* ----------------------------------------------------------------- claims

\* the step is the commit of reset_stuck_tasks of worker w
ResetStep(w) == pc[w] = "reset_commit" /\ pc'[w] = "loop"

\* worker v is, as a live process, executing row t
Executing(v, t) == task[v] = t /\ pc[v] \in RunPcs

\* C1: at most one claim.  No two workers ever hold the same fetched row, a
\* claim commit only ever flips a pending row, and a row that left pending
\* never returns to it: so no row is executed by two workers.
AtMostOneClaim ==
    /\ [](\A w1, w2 \in Workers : (w1 # w2 /\ task[w1] # NoTask) => task[w1] # task[w2])
    /\ [][\A w \in Workers : (pc[w] = "dispatch" /\ pc'[w] \in RunPcs)
                                => tasks[task[w]].status = PENDING]_vars
    /\ [][\A t \in TaskIds : tasks[t].status \in {RUNNING, COMPLETED, FAILED}
                                => tasks'[t].status # PENDING]_vars

\* C1 witness: two workers hold fetched rows at once; the second fetch skipped
\* the older row, still pending and locked by the first
ParallelClaims ==
    \E w1, w2 \in Workers :
        /\ pc[w1] = "dispatch" /\ pc[w2] = "dispatch"
        /\ task[w1] < task[w2]
        /\ tasks[task[w1]].status = PENDING /\ lock[task[w1]] = w1

\* C2: terminal states are permanent: a row in completed or failed keeps its
\* status until it is deleted.
TerminalPermanent ==
    [][\A t \in TaskIds : tasks[t].status \in Terminal
            => tasks'[t].status \in {tasks[t].status, DELETED}]_vars

\* C3: every status change follows pending -> running -> {completed, failed}:
\* a row is inserted pending, becomes terminal only from running, and never
\* goes back to pending or running.
StrictStatusOrder ==
    [][\A t \in TaskIds :
          LET a == tasks[t].status
              b == tasks'[t].status
          IN  a # b => \/ a = ABSENT /\ b = PENDING
                       \/ a = PENDING /\ b = RUNNING
                       \/ a = RUNNING /\ b \in Terminal
                       \/ a \in Terminal /\ b \in Terminal
                       \/ b = DELETED]_vars

\* C4: every terminal row has completed_at set, and every completed row has
\* progress = 100.
TerminalStamped ==
    \A t \in TaskIds :
        /\ tasks[t].status \in Terminal => tasks[t].completed_at
        /\ tasks[t].status = COMPLETED => tasks[t].progress = 100

ResetSparesLiveWorkers ==
    [][\A w \in Workers : ResetStep(w) =>
          \A t \in TaskIds :
              (tasks[t].status = RUNNING /\ \E v \in Workers \ {w} : Executing(v, t))
                  => tasks'[t].status = RUNNING]_vars

\* C8: when the except block of run_task or run_embedding has run, the row (if
\* it still exists) is failed with an error_message, and the worker is back
\* at the top of its loop, alive.
UnhandledExceptionFailsTask ==
    [][\A w \in Workers :
          (pc[w] \in {"task_except", "embedding_except"} /\ pc'[w] \notin {pc[w], "boot"})
          => /\ pc'[w] \in {"loop", "loop_err"}
             /\ Exists(task[w]) =>
                   /\ pc'[w] = "loop"
                   /\ tasks'[task[w]].status = FAILED
                   /\ tasks'[task[w]].error_message # NULL]_vars

\* C8 witness: a row failed by an except block, its worker back in the loop
ExceptionHandled ==
    \E t \in TaskIds :
        /\ tasks[t].status = FAILED
        /\ tasks[t].error_message \in {INGEST_ERROR, TYPE_ERROR}
        /\ \E w \in Workers : pc[w] = "loop" /\ ~kill_now[w]

\* C10 as stated: the row is re-read before each sub-stage, so a sub-stage
\* (transcribe, chunk, embed) starts on a failed row at most in the window
\* between the re-read that precedes it and its start.
NoStageAfterCancel ==
    [][\A w \in Workers :
          (pc'[w] \in StagePcs /\ pc'[w] # pc[w] /\ tasks[task[w]].status = FAILED)
              => pc[w] = "video"]_vars

\* C10 amended: the re-read is at the head of each per-video iteration; if
\* the row is failed there, the loop is left and no sub-stage of that video or
\* of a later one is started.
NoVideoAfterCancel ==
    [][\A w \in Workers :
          (pc[w] = "refresh" /\ Exists(task[w]) /\ tasks[task[w]].status = FAILED)
          => /\ pc'[w] \in {"refresh", "finalize", "boot"}
             /\ pc'[w] = "finalize" => video'[w] = video[w]]_vars

\* C10 witness: the loop was left with videos remaining, the row failed
CancelledWithVideosLeft ==
    \E w \in Workers :
        /\ pc[w] = "finalize"
        /\ video[w].index < video[w].total_videos
        /\ Exists(task[w]) /\ tasks[task[w]].status = FAILED

\* C5: every pending row is eventually claimed (or deleted) as long as some
\* worker is alive and not shutting down, whatever happens to notifications.
NotificationIsHint ==
    \A t \in TaskIds :
        (tasks[t].status = PENDING)
            ~> (tasks[t].status # PENDING \/ \A w \in Workers : kill_now[w])

\* C5 witness: a worker blocks in select with nothing to read while a row is
\* pending and unlocked: its notification was lost or came before the LISTEN
WaitingWhilePending ==
    \E w \in Workers, t \in TaskIds :
        /\ pc[w] = "select" /\ ~notifies[w] /\ ~kill_now[w]
        /\ tasks[t].status = PENDING /\ lock[t] = NoWorker

\* C9: the worker exits only from the top of its loop; whenever it stops
\* executing a row, the row (if it still exists) is terminal; and once the
\* kill latch is set the worker eventually exits.
GracefulShutdown ==
    /\ [][\A w \in Workers : pc'[w] = "exited" => pc[w] \in {"loop", "exited"}]_vars
    /\ [][\A w \in Workers :
            (pc[w] \in RunPcs /\ pc'[w] \notin RunPcs \cup {"boot"} /\ Exists(task[w]))
                => tasks'[task[w]].status \in Terminal]_vars
    /\ \A w \in Workers : kill_now[w] ~> (pc[w] = "exited")

\* C9 witness: the latch is set while the worker executes a running row
KilledInFlight ==
    \E w \in Workers :
        /\ kill_now[w] /\ pc[w] \in RunPcs
        /\ Exists(task[w]) /\ tasks[task[w]].status = RUNNING

\* C11: finalization of a pipeline task with N > 0 new videos of which S were
\* processed: S = 0 gives failed; 0 < S < N gives completed with the
\* error_message "Completed with errors. S/N processed."; S = N gives completed
\* with no error_message.
FinalizationOutcome ==
    [][\A w \in Workers :
          (pc[w] = "finalize" /\ pc'[w] = "loop" /\ Exists(task[w]) /\ video[w].total_videos > 0)
          => LET S == video[w].success_count
                 N == video[w].total_videos
                 r == tasks'[task[w]]
             IN  /\ S = 0 => r.status = FAILED
                 /\ (0 < S /\ S < N) => /\ r.status = COMPLETED
                                        /\ r.error_message = PartialMessage(S, N)
                 /\ S = N => r.status = COMPLETED /\ r.error_message = NULL]_vars

\* C11 witness: a finalized row that reports 2/3 processed
PartialFinalized ==
    \E t \in TaskIds :
        /\ tasks[t].status = COMPLETED /\ tasks[t].progress = 100
        /\ tasks[t].error_message = "Completed with errors. 2/3 processed."

\* C12: stage-local recovery.  When process_single_video returns for video i
\* without success, success_count is unchanged, the row is not touched, and the
\* loop goes to video i + 1 if there is one (to the finalization otherwise),
\* never to the task's except block; and from the head of the loop the next
\* video is started unless the row was cancelled or deleted.
StageLocalRecovery ==
    /\ [][\A w \in Workers :
            (pc[w] \in StagePcs \cup {"video"} /\ video'[w].index = video[w].index + 1
                /\ video'[w].success_count = video[w].success_count)
            => /\ tasks' = tasks
               /\ pc'[w] = IF video'[w].index < video[w].total_videos
                            THEN "refresh" ELSE "finalize"]_vars
    /\ [][\A w \in Workers :
            (pc[w] = "refresh" /\ pc'[w] # "refresh" /\ Exists(task[w])
                /\ tasks[task[w]].status # FAILED)
            => pc'[w] \in {"video", "boot"}]_vars

\* C12 witness: the first video failed and the second one is being transcribed
LaterVideoAttempted ==
    \E w \in Workers :
        /\ pc[w] = "transcribe"
        /\ video[w].index >= 1 /\ video[w].success_count < video[w].index
        /\ Exists(task[w]) /\ tasks[task[w]].status = RUNNING

\* C13: within a pipeline task the stages of a video run in the order
\* transcribe, chunk, embed, each on that single video only, and the loop
\* moves to the next video (index + 1) only from a stage of the current one:
\* every stage of video i is over before a stage of video j > i starts.
StagesInOrder ==
    /\ [](\A w \in Workers : pc[w] \in StagePcs =>
              /\ video[w].index < video[w].total_videos
              /\ \A candidates \in SUBSET (0..(video[w].total_videos - 1)) :
                    flow_targets(candidates, stage_video_ids(video[w].index))
                        \subseteq {video[w].index})
    /\ [][\A w \in Workers :
            /\ (pc'[w] = "transcribe" /\ pc[w] # pc'[w]) => pc[w] = "video"
            /\ (pc'[w] = "chunk" /\ pc[w] # pc'[w]) => pc[w] = "transcribe"
            /\ (pc'[w] = "embed" /\ pc[w] # pc'[w]) => pc[w] = "chunk"
            /\ (pc'[w] \in StagePcs \cup {"video"} /\ pc[w] # "refresh")
                    => video'[w].index = video[w].index
            /\ (pc[w] = "refresh" /\ pc'[w] = "video") => video'[w] = video[w]
            /\ (video'[w].index # video[w].index /\ pc'[w] \in {"refresh", "finalize"})
                    => /\ pc[w] \in StagePcs \cup {"video"}
                       /\ video'[w].index = video[w].index + 1]_vars

\* C13 witness: the second video of a task is in its chunk stage
SecondVideoChunking ==
    \E w \in Workers :
        pc[w] = "chunk" /\ video[w].index = 1 /\ video[w].total_videos = 2

\* the videos that have a row and are in no worker's per-video loop: videos an
\* earlier task left behind.  None of them is fully processed, since no call
\* of embed_flow returns.
LeftUnfinished == registered \ UNION {video[v].video_ids : v \in Workers}

\* C14: the stages are resumable: when the ingest of a later pipeline task
\* returns video_ids from a channel list that reaches past a video an earlier
\* task left unfinished, that video is among the video_ids the task goes on
\* to process.
ResumableStages ==
    [][\A w \in Workers :
          (pc[w] = "ingest" /\ pc'[w] = "refresh")
          => \A v \in LeftUnfinished :
                (\E j \in video'[w].video_ids : j > v) => v \in video'[w].video_ids]_vars

\* C15: FIFO per instance.  A worker that is the only one to have claimed
\* anything never claims a row older (smaller created_at) than a row that was
\* claimed before.
FifoPerInstance ==
    [][\A w \in Workers :
          (pc[w] = "loop" /\ pc'[w] = "dispatch" /\ crashes = 0
              /\ \A v \in Workers \ {w} : pc[v] = "boot")
          => \A u \in TaskIds :
                u > task'[w] => tasks[u].status \notin {RUNNING, COMPLETED, FAILED}]_vars

\* C16: the progress values committed on a row that has been claimed never
\* decrease and stay within 0..100, for every number of videos up to
\* MaxTotal and every pattern of per-video failures.
ProgressMonotone ==
    /\ [](\A t \in TaskIds : tasks[t].progress \in 0..100)
    /\ [][\A t \in TaskIds :
            (tasks[t].status \in {RUNNING, COMPLETED, FAILED} /\ tasks'[t].status \in TaskStatus)
                => tasks'[t].progress >= tasks[t].progress]_vars

\* C16 witness: the last of 100 videos is in its embed stage, at 99 percent
LastOfHundred ==
    \E w \in Workers :
        /\ pc[w] = "embed" /\ video[w].total_videos = 100 /\ video[w].index = 99
        /\ tasks[task[w]].progress = 99

\* C17: an embed_question task that the worker has claimed ends in completed
\* with the vector in result (status and result written by the same commit).
EmbedQuestionCompletes ==
    [][\A w \in Workers :
          (pc[w] \in {"embedding", "embedding_except"} /\ pc'[w] = "loop" /\ Exists(task[w]))
          => /\ tasks'[task[w]].status = COMPLETED
             /\ tasks'[task[w]].result = "vector"]_vars

\* the row _wait_for_embedding polls, and a step on which the wait ends
WaitRow == tasks[stream.task]
WaitEnds == stream.pc = "wait" /\ stream'.pc # "wait"

\* C18 as stated: the wait on the CONTENT path always ends, and in one of
\* three ways: it returns when the row is completed, raises RuntimeError when
\* the row is failed, raises TimeoutError when the row is neither
WaitOutcomeStated ==
    /\ [][WaitEnds =>
            \/ stream'.pc = "retrieve" /\ WaitRow.status = COMPLETED
            \/ stream'.error = "RuntimeError" /\ WaitRow.status = FAILED
            \/ stream'.error = "TimeoutError" /\ WaitRow.status \notin {COMPLETED, FAILED}]_vars
    /\ (stream.pc = "wait") ~> (stream.pc # "wait")

\* C18: the wait for the question embedding always ends, in exactly one of
\* four ways: it returns, only for a completed row, and then the wait goes on
\* to the retrieval; it raises RuntimeError for a failed row; it raises
\* TimeoutError for a row that exists and is neither completed nor failed;
\* it raises NoResultFound when the row has been deleted
WaitOutcome ==
    /\ [][WaitEnds =>
            \/ /\ stream'.pc = "retrieve" /\ stream'.error = "none"
               /\ WaitRow.status = COMPLETED /\ WaitRow.result = "vector"
            \/ /\ stream'.pc = "aborted" /\ stream'.error = "RuntimeError"
               /\ WaitRow.status = FAILED
            \/ /\ stream'.pc = "aborted" /\ stream'.error = "TimeoutError"
               /\ WaitRow.status \in {PENDING, RUNNING}
            \/ /\ stream'.pc = "aborted" /\ stream'.error = "NoResultFound"
               /\ ~Exists(stream.task)]_vars
    /\ (stream.pc = "wait") ~> (stream.pc # "wait")

\* the wait slept at least once, then found the row failed and raised
WaitRaisedOnFailed ==
    /\ stream.error = "RuntimeError"
    /\ stream.polls > 0
    /\ tasks[stream.task].status = FAILED

\* the events of one type the stream has emitted, by position
EventsOfType(type) == {i \in DOMAIN stream.events : stream.events[i].type = type}

\* the response is over: the generator returned or raised
StreamEnded == stream.pc \in {"closed", "aborted"}

\* the stream took a path on which sources are to be sent
SourcesPath ==
    \/ stream.intent = "CONTENT_GLOBAL"
    \/ stream.intent = "CONTENT" /\ stream.sources # <<>>

\* C19: a stream that has emitted anything has emitted exactly one session_id
\* event, as its first event; no sources event follows a content event; and
\* a stream that ended on the CONTENT path with a non-empty retrieval or on
\* the CONTENT_GLOBAL path has emitted exactly one sources event
EventOrder ==
    /\ stream.pc \notin {"none", "created"} =>
          /\ EventsOfType("session_id") = {1}
    /\ \A i \in EventsOfType("sources"), j \in EventsOfType("content") : i < j
    /\ StreamEnded /\ SourcesPath => Cardinality(EventsOfType("sources")) = 1

\* the data of the content events, concatenated in the order streamed
RECURSIVE ContentOf(_)
ContentOf(events) ==
    IF events = <<>> THEN <<>>
    ELSE (IF Head(events).type = "content" THEN Head(events).data ELSE <<>>)
         \o ContentOf(Tail(events))

\* the rows the stream persisted with a role
MessagesOf(role) == {i \in DOMAIN stream.messages : stream.messages[i].role = role}

\* the stream persisted the question as the only user message, followed by
\* the only assistant message, whose content is the streamed content
QuestionAndAnswerPersisted ==
    /\ Len(stream.messages) = 2
    /\ MessagesOf("user") = {1}
    /\ MessagesOf("assistant") = {2}
    /\ stream.messages[1].content = <<QUESTION>>
    /\ stream.messages[2].content = ContentOf(stream.events)

\* C20 as stated: a stream that ran to normal completion persisted one user
\* message with the question and one assistant message with the streamed
\* content, whose sources are those of the streamed sources event
PersistedAsStreamed ==
    stream.pc = "closed" =>
        /\ QuestionAndAnswerPersisted
        /\ \A i \in EventsOfType("sources") :
              stream.messages[2].sources = json_dumps(stream.events[i].data)

\* C20: a stream that ran to normal completion persisted one user message
\* with the question and one assistant message with the streamed content; the
\* assistant's sources are the list of the streamed sources event when that
\* list is not empty, and null when the list was empty or no sources event
\* was streamed
PersistedAnswer ==
    stream.pc = "closed" =>
        /\ QuestionAndAnswerPersisted
        /\ \A i \in EventsOfType("sources") :
              stream.events[i].data # <<>> =>
                  stream.messages[2].sources = json_dumps(stream.events[i].data)
        /\ (\A i \in EventsOfType("sources") : stream.events[i].data = <<>>) =>
              stream.messages[2].sources = None

\* a CONTENT stream closed after two sources and two different tokens
ContentStreamClosed ==
    /\ stream.pc = "closed"
    /\ stream.intent = "CONTENT"
    /\ stream.sources = <<SOURCE, SOURCE>>
    /\ Len(stream.answer_text) = 2
    /\ stream.answer_text[1] # stream.answer_text[2]

\* C21: the user message of an ask is never persisted without its assistant
\* message: whoever reads the session's messages sees both or neither
UserAssistantPair ==
    MessagesOf("user") # {} => MessagesOf("assistant") # {}

SseDedup ==
    \A t \in TaskIds : \A s \in Terminal : sse.emitted[t][s] <= 1

\* C24: a task that is completed or failed and that a connected subscriber
\* has no entry for (it became terminal after the subscriber connected) is
\* sent to that subscriber as a task_update in a later poll cycle, unless
\* the row is deleted first
SseDelivery ==
    \A t \in TaskIds :
        (sse.pc = "poll" /\ tasks[t].status \in Terminal /\ sse.seen_task_states[t] = UNSEEN)
            ~> (~Exists(t) \/ \E s \in Terminal : sse.emitted[t][s] > 0)

\* the chunks a finished retrieval returned
Retrieved == {retrieval.chunks[i] : i \in DOMAIN retrieval.chunks}

\* C25: every chunk the retriever returns is a chunk of a video of the
\* video_ids it was given; with an empty video_ids it returns the empty list
\* without running the query; and every chunk returned on the CONTENT path
\* is of a video of the requested channel
RetrievedWithinSelection ==
    retrieval.pc = "done" =>
        /\ \A c \in Retrieved :
              /\ chunk_video_id[c] \in retrieval.video_ids
              /\ retrieval.channel_of[chunk_video_id[c]] = retrieval.channel_id
        /\ retrieval.video_ids = {} => retrieval.chunks = <<>> /\ ~retrieval.queried

\* a retrieval that returned a chunk found by the text search only, while a
\* chunk of another channel matched the text as well
TextOnlyChunkRetrieved ==
    /\ retrieval.pc = "done"
    /\ \E c \in Retrieved : c \notin retrieval.has_vector
    /\ \E d \in retrieval.text_match :
          retrieval.channel_of[chunk_video_id[d]] # retrieval.channel_id

\* C26: the text the LLM returned is executed only if, with the fences
\* removed, its first token in upper case is exactly SELECT
OnlySelectExecuted ==
    sql_agent.executed =>
        upper(first_token(lstrip(replace(replace(sql_agent.response, FENCE_SQL), FENCE))))
            = <<"S", "E", "L", "E", "C", "T">>

\* the requests C27 says are refused
MustBeRejected(request) ==
    \/ request.task_type = "embed_question"
    \/ request.task_type = "pipeline" /\ ~request.channel_url

\* C27: a request of task_type embed_question, or of task_type pipeline
\* without channel_url, is answered 400 or 422 and inserts no row; a request
\* that is accepted inserts exactly one row, in status pending
SubmissionValidated ==
    [][http' # http =>
          /\ MustBeRejected(http'.request) =>
                http'.status_code \in {400, 422} /\ tasks' = tasks
          /\ http'.status_code = HTTP_OK =>
                /\ tasks'[http'.task_id] = NewTask(http'.request.task_type)
                /\ tasks[http'.task_id].status = ABSENT
                /\ \A t \in TaskIds \ {http'.task_id} : tasks'[t] = tasks[t]]_vars

\* ---- C30: transcribed => downloaded
\* C30: in every reachable state, every video row that is transcribed is also
\* downloaded, whatever the order of ingest and transcribe operations and
\* whichever downloads and transcriptions fail.
TranscribedImpliesDownloaded ==
    \A v \in VideoIds :
        library.videos[v].exists /\ library.videos[v].transcribed
            => library.videos[v].downloaded

\* ---- C28: the chunk stage replaces
\* the chunk rows of the video as stored, and the rows one run over the list
\* `segments` stores
StoredChunks == chunks_of(chunker.chunks, CHUNKED_VIDEO)

OneRun(segments) == insert_chunks(<<>>, CHUNKED_VIDEO, chunk_list(segments))

\* C28: after any number of chunk runs on the same segments of a video, the
\* stored chunks of that video are exactly the output of one run: same count,
\* same start and end, nothing left of an earlier run, chunk_index 0..n-1
\* without gap or duplicate.
IdempotentByReplacement ==
    chunker.returned >= 1 =>
        /\ \E segments \in query_segments(chunker.segments) : StoredChunks = OneRun(segments)
        /\ \A i \in 1..Len(StoredChunks) : StoredChunks[i].chunk_index = i - 1

\* two runs have stored their chunks, several chunks each
ChunkedTwice == chunker.returned >= 2 /\ Len(StoredChunks) >= 2

\* ---- C29: chunk_index order is start_time order
\* C29: for all chunks c1, c2 of the same video, c1.chunk_index < c2.chunk_index
\* implies c1.start_time <= c2.start_time, whatever the segments (any lengths,
\* empty texts, equal start times).
IndexOrderIsTimeOrder ==
    \A i, j \in 1..Len(chunker.chunks) :
        /\ chunker.chunks[i].video_id = chunker.chunks[j].video_id
        /\ chunker.chunks[i].chunk_index < chunker.chunks[j].chunk_index
        => chunker.chunks[i].start_time <= chunker.chunks[j].start_time

\* chunks with different start times were stored from segments with an empty
\* text and with two equal start times
LaterChunkStartsLater ==
    /\ \E i, j \in 1..Len(StoredChunks) :
        /\ StoredChunks[i].chunk_index < StoredChunks[j].chunk_index
        /\ StoredChunks[i].start_time < StoredChunks[j].start_time
    /\ \E i \in 1..Len(chunker.segments) : chunker.segments[i].text = 0
    /\ \E i, j \in 1..Len(chunker.segments) :
        /\ i # j
        /\ chunker.segments[i].start_time = chunker.segments[j].start_time

\* ---- C32: the overlap between consecutive chunks
\* the orders of the segments whose run is the one stored
StoredRuns ==
    IF chunker.returned >= 1
    THEN {s \in query_segments(chunker.segments) : StoredChunks = OneRun(s)}
    ELSE {}

\* the buffers shared by chunk k and chunk k + 1 of a run: what the slide after
\* chunk k retained, for every chunk that has a successor
SharedBuffers(segments) ==
    LET built == built_chunks(segments)
        n     == Len(chunk_list(segments))
    IN  {built.slides[k] : k \in {i \in 1..Len(built.slides) : i < n}}

\* C32 as stated: for every pair of consecutive chunks of a video, the estimated
\* token count of the text they share is at most OVERLAP_TOKENS.
OverlapWithinLimit ==
    \A s \in StoredRuns : \A kept \in SharedBuffers(s) :
        estimate_tokens(kept.current_char_len) <= OVERLAP_TOKENS

\* C32, amended: for every pair of consecutive chunks of a video, the text they
\* share is a single segment (the last one of the earlier chunk, of any length)
\* or its estimated token count is at most OVERLAP_TOKENS.
OverlapWithinLimitOrOneSegment ==
    \A s \in StoredRuns : \A kept \in SharedBuffers(s) :
        \/ Len(kept.current_segments) = 1
        \/ estimate_tokens(kept.current_char_len) <= OVERLAP_TOKENS

\* a stored run with a pair of chunks sharing one long segment and a pair sharing
\* text within the limit, the slide having popped segments
SlidWithinAndBeyondLimit ==
    \E s \in StoredRuns :
        /\ \E kept \in SharedBuffers(s) :
            estimate_tokens(kept.current_char_len) > OVERLAP_TOKENS
        /\ \E kept \in SharedBuffers(s) :
            /\ estimate_tokens(kept.current_char_len) <= OVERLAP_TOKENS
            /\ kept.current_segments # <<>>

\* ---- C33: the trailing residual chunk
\* the segments with a non-empty text, and the character count chunk_video keeps
\* for a buffer holding all of `segments`
NonEmpty(segments) == SelectSeq(segments, LAMBDA seg : seg.text # 0)

RECURSIVE CharLen(_)
CharLen(segments) ==
    IF segments = <<>> THEN 0 ELSE Head(segments).text + 1 + CharLen(Tail(segments))

\* C33: a trailing residual chunk is emitted if and only if segments remain in
\* the buffer and their estimated tokens are > 50; when the estimated tokens of
\* all non-empty segments stay below TARGET_TOKENS, exactly one chunk is emitted
\* if that estimate is > 50, from the first start_time to the last end_time, and
\* none otherwise.
ResidualChunkRule ==
    \A s \in StoredRuns :
        LET built  == built_chunks(s)
            filled == NonEmpty(s)
            tokens == estimate_tokens(CharLen(filled))
        IN  /\ Len(StoredChunks) = Len(built.chunks) + 1
                <=> (built.current_segments # <<>>
                        /\ estimate_tokens(CharLen(built.current_segments)) > 50)
            /\ Len(StoredChunks) \in {Len(built.chunks), Len(built.chunks) + 1}
            /\ tokens < TARGET_TOKENS /\ tokens > 50 =>
                /\ Len(StoredChunks) = 1
                /\ StoredChunks[1].start_time = filled[1].start_time
                /\ StoredChunks[1].end_time = filled[Len(filled)].end_time
            /\ tokens <= 50 => StoredChunks = <<>>

\* a run over several short segments and a blank one stored the one residual chunk
OneResidualChunk ==
    \E s \in StoredRuns :
        /\ Len(NonEmpty(s)) >= 2 /\ Len(NonEmpty(s)) < Len(s)
        /\ estimate_tokens(CharLen(NonEmpty(s))) < TARGET_TOKENS
        /\ Len(StoredChunks) = 1

\* ---- C38: chunk coverage
\* C38: for a video for which at least one chunk is emitted, every segment with a
\* non-empty text is contained in the text of at least one chunk of that video.
ChunkCoverage ==
    \A s \in StoredRuns :
        StoredChunks # <<>> =>
            \A i \in 1..Len(s) :
                s[i].text # 0 =>
                    \E c \in 1..Len(StoredChunks) :
                        \E k \in 1..Len(StoredChunks[c].text) :
                            StoredChunks[c].text[k] = s[i].text

\* ---- C31: segments and the transcribed flag
\* C31: in no reachable state does a video have segments while transcribed is
\* false (a failed transcription leaves none behind), and no video ever holds
\* segments from more than one transcription run.
SegmentsOfOneTranscription ==
    \A v \in VideoIds :
        library.videos[v].exists =>
            /\ library.videos[v].segments > 0 => library.videos[v].transcribed
            /\ library.videos[v].segments <= 1

\* ---- C34: the embed stage covers the chunks of video_ids
\* C34: when embed_flow returns without a batch failure, every chunk of the given
\* videos has an embedding, and a summary_embedding whenever its summary is
\* non-empty, for every mix of chunks with and without summaries and every
\* batch_size.
EmbedCoversAllChunks ==
    embedder.pc = "returned" /\ embedder.failed = 0 =>
        \A c \in EmbedChunkIds :
            embedder.chunks[c].selected =>
                /\ embedder.chunks[c].embedding
                /\ embedder.chunks[c].summary => embedder.chunks[c].summary_embedding

\* ---- C35: a failed batch
\* an embed_batch whose encoding raised has just returned
BatchFailed == embedder.pc = "loop" /\ ~embedder'.result.success

\* C35: when encoding a batch fails, none of that batch's chunks has a vector
\* written, the embedded count is not advanced, the loop stops, and the vectors
\* committed by earlier batches are unchanged.
FailedBatchStep ==
    BatchFailed =>
        /\ embedder'.chunks = embedder.chunks
        /\ embedder'.embedded = embedder.embedded
        /\ embedder'.pc = "returned"

FailedBatchRolledBack == [][FailedBatchStep]_vars

\* a batch failed after an earlier batch had committed its vectors
FailedAfterCommittedBatch ==
    /\ embedder.pc = "returned"
    /\ ~embedder.result.success
    /\ embedder.embedded > 0
    /\ \E c \in EmbedChunkIds : embedder.chunks[c].selected /\ ~embedder.chunks[c].embedding

\* ---- C36: the happy path of a pipeline task
\* C36: a video of a pipeline task whose transcription and chunking succeeded
\* and whose embed sub-stage is then executed is counted as processed (with
\* every video counted the task ends in completed): the step that ends the
\* embed sub-stage of a video adds one to success_count.
HappyPathCounted ==
    [][\A w \in Workers :
          (pc[w] = "embed" /\ pc'[w] \in {"refresh", "finalize"})
          => video'[w].success_count = video[w].success_count + 1]_vars

\* ---- C39: crash recovery
\* a row in running that no worker process is working on: its worker died
Orphaned(t) ==
    /\ Exists(t)
    /\ tasks[t].status = RUNNING
    /\ \A w \in Workers : task[w] # t

\* every worker process has been told to stop and has left its loop
AllExited == \A w \in Workers : pc[w] = "exited"

\* C39: a task whose worker crashed between claiming and finalizing it is not
\* left in running for ever: the worker boot that follows the crash moves it to
\* failed (a task still pending is claimed again, C5). Stated for the runs in
\* which a worker process stays up.
CrashRecovery ==
    \A t \in TaskIds :
        Orphaned(t) ~> (~Exists(t) \/ tasks[t].status # RUNNING \/ AllExited)

\* ---- C37: what a counted video has been through
\* the step of worker w counts the video of its round
Counted(w) == library'.success_count[w] > library.success_count[w]

\* a counted video is, at the end of its round, downloaded and transcribed and
\* its chunks have their embedding
CountedStep ==
    \A w \in Workers :
        Counted(w) =>
            \A v \in library.video_id[w] :
                /\ library'.videos[v].downloaded
                /\ library'.videos[v].transcribed
                /\ library'.videos[v].chunks => library'.videos[v].embedded

\* the task of worker w had new videos and none of them was downloaded
AllDownloadsFailed(w) ==
    /\ library.video_ids[w] # {}
    /\ library.download_failed[w] = library.video_ids[w]
    /\ library.to_download[w] = {}

====
